---- MODULE Spec2Model ----
(***************************************************************************)
(* A model of the networking-ovn translation layer: OVNClient              *)
(* (networking_ovn/common/ovn_client.py), the helpers of                   *)
(* networking_ovn/common/utils.py and the L3 service plugin                *)
(* (networking_ovn/l3/l3_ovn.py).                                          *)
(*                                                                         *)
(* The northbound database is one record of tables, nb.  A Facade          *)
(* operation builds lists of commands and hands each list to transaction,  *)
(* which applies the list as a unit or not at all.  A transaction fails    *)
(* when one of its commands fails on the database state, or when the       *)
(* environment refuses the commit (the parameter commit).  cloud is the    *)
(* Neutron database the plugin reads and writes through its base classes,  *)
(* and last is the record of the operation that ran last: its name, its    *)
(* arguments, the transactions it issued and whether it raised.            *)
(***************************************************************************)
EXTENDS Integers, Sequences, FiniteSets, TLC

VARIABLES nb, cloud, last, inflight

vars == <<nb, cloud, last, inflight>>

(***************************************************************************)
(* Bounds of the model.                                                    *)
(***************************************************************************)
\* NAT rows one logical router may hold.
MaxNat == 3
\* Static routes one logical router may hold.
MaxRoutes == 2

Routers == {"r1", "r2"}

RouterOrder == <<"r1", "r2">>

\* Python's None: as a string where strings are expected, as a record where
\* dictionaries are; an optional value of another kind is <<>> or <<value>>.
None == "None"

NoneRec == [none |-> TRUE]

\* A networks argument that was not given.
NoNetworks == <<None>>

Min(S) == CHOOSE x \in S : \A y \in S : x <= y

Range(s) == {s[i] : i \in 1..Len(s)}

\* s without its element at index i.
RemoveAt(s, i) == SubSeq(s, 1, i - 1) \o SubSeq(s, i + 1, Len(s))

\* The function f without the key k.
Without(f, k) == [x \in DOMAIN f \ {k} |-> f[x]]

\* The function f on the keys in S only.
Restrict(f, S) == [x \in S |-> f[x]]

(***************************************************************************)
(* utils.py: the identifier mapper.  A name is its prefix and the id.      *)
(***************************************************************************)
ovn_name(id) == <<"neutron-", id>>

ovn_lrouter_port_name(id) == <<"lrp-", id>>

\* A port name is one string, as the id of a Neutron port is.
ovn_provnet_port_name(network_id) == "provnet-" \o network_id

(***************************************************************************)
(* The northbound database.                                                *)
(*   nb.lrouters : name -> [enabled, external_ids, static_routes, nat],    *)
(*                 the columns of the Logical_Router row; static_routes    *)
(*                 and nat are the referenced rows, in order               *)
(*   nb.lrps     : name -> [lrouter, networks, gateway_chassis]; the       *)
(*                 binding of a gateway port to a chassis is the one       *)
(*                 column gateway_chassis, None on any other port          *)
(*   nb.lsps     : name -> [lswitch, addresses, port_security,             *)
(*                 dhcpv4_options, dhcpv6_options]; a DHCP options column  *)
(*                 is <<>> or <<uuid>>                                     *)
(*   nb.dhcp     : the DHCP_Options rows, each [uuid, cidr, options,       *)
(*                 external_ids: [subnet_id, port_id]]; port_id is None in *)
(*                 the row of a subnet                                     *)
(*   nb.dhcp_made: the number of DHCP_Options rows inserted so far; a row  *)
(*                 gets a uuid no row had before                           *)
(*   nb.asets    : name -> the addresses of the Address_Set row            *)
(*   nb.lswitches: name -> [external_ids, visible] of the Logical_Switch   *)
(*                 row; visible says that the row has reached the copy of  *)
(*                 the database this process reads                         *)
(* A row of nb.lsps also holds type, tag and options; tag is <<>> or       *)
(* <<tag>>.                                                                *)
(***************************************************************************)
EmptyNb ==
    [lrouters |-> <<>>, lrps |-> <<>>, lsps |-> <<>>, dhcp |-> {}, dhcp_made |-> 0,
     asets |-> <<>>, lswitches |-> <<>>]

\* A row this process finds in its copy of the Logical_Switch table.
SwitchVisible(db, name) == name \in DOMAIN db.lswitches /\ db.lswitches[name].visible

\* The DHCP_Options rows of a subnet: its own (port_id None) or a port's.
DhcpRows(db, subnet_id, port_id) ==
    {row \in db.dhcp : /\ row.external_ids.subnet_id = subnet_id
                       /\ row.external_ids.port_id = port_id}

\* What a DHCP options column holds when a command writes ref to it:
\*   <<>>                                   nothing
\*   <<[uuid |-> u]>>                       the row u, read before the
\*                                          transaction was opened
\*   <<[subnet_id |-> s, port_id |-> p]>>   the result of the command of
\*                                          this transaction that added the
\*                                          row of (s, p)
\* The schema is not part of the repository: a uuid of no row is either
\* stored as it is or left out by the database, as stale_kept says.
DhcpColumn(db, ref, stale_kept) ==
    IF ref = <<>> THEN <<>>
    ELSE IF "uuid" \in DOMAIN ref[1]
    THEN IF (\E row \in db.dhcp : row.uuid = ref[1].uuid) \/ stale_kept
         THEN <<ref[1].uuid>> ELSE <<>>
    ELSE <<(CHOOSE row \in DhcpRows(db, ref[1].subnet_id, ref[1].port_id) : TRUE).uuid>>

NatOf(db, lrouter) == db.lrouters[lrouter].nat

RoutesOf(db, lrouter) == db.lrouters[lrouter].static_routes

\* The uuid a newly inserted NAT row gets: one no live NAT row has.
UsedUuids(db) ==
    UNION {{NatOf(db, n)[i].uuid : i \in 1..Len(NatOf(db, n))} : n \in DOMAIN db.lrouters}

FreshUuid(db) == Min({u \in 1..(Cardinality(UsedUuids(db)) + 1) : u \notin UsedUuids(db)})

Ok(db) == [ok |-> TRUE, db |-> db]

Failed(db) == [ok |-> FALSE, db |-> db]

\* The indexes of the rows of a router's nat column that a delete command matches.
NatMatches(rules, c) ==
    {i \in 1..Len(rules) : /\ rules[i].type = c.type
                           /\ rules[i].logical_ip = c.logical_ip
                           /\ rules[i].external_ip = c.external_ip}

RouteMatches(routes, c) ==
    {i \in 1..Len(routes) : /\ routes[i].ip_prefix = c.ip_prefix
                            /\ routes[i].nexthop = c.nexthop}

(***************************************************************************)
(* One command applied to the database: the new database, or a failure.    *)
(***************************************************************************)
RunCommand(db, c) ==
    CASE c.cmd = "create_lrouter" ->
           \* may_exist: an existing row is kept
           IF c.name \in DOMAIN db.lrouters THEN Ok(db)
           ELSE Ok([db EXCEPT !.lrouters =
                       (c.name :> [enabled |-> c.enabled, external_ids |-> c.external_ids,
                                   static_routes |-> <<>>, nat |-> <<>>]) @@ @])
      [] c.cmd = "update_lrouter" ->
           \* if_exists; only the columns given are written
           IF c.name \notin DOMAIN db.lrouters THEN Ok(db)
           ELSE Ok([db EXCEPT !.lrouters[c.name] =
                       [@ EXCEPT !.enabled = IF c.enabled = <<>> THEN @ ELSE c.enabled[1],
                                 !.external_ids =
                                     IF c.external_ids = <<>> THEN @ ELSE c.external_ids[1]]])
      [] c.cmd = "delete_lrouter" ->
           \* if_exists; the router's ports, routes and NAT rows go with its row
           Ok([db EXCEPT !.lrouters = Without(@, c.name),
                         !.lrps = [n \in {m \in DOMAIN @ : @[m].lrouter # c.name} |-> @[n]]])
      [] c.cmd = "add_nat_rule_in_lrouter" ->
           IF c.lrouter \notin DOMAIN db.lrouters THEN Failed(db)
           ELSE Ok([db EXCEPT !.lrouters[c.lrouter].nat =
                       Append(@, [uuid |-> FreshUuid(db), type |-> c.type,
                                  logical_ip |-> c.logical_ip,
                                  external_ip |-> c.external_ip])])
      [] c.cmd = "set_nat_rule_in_lrouter" ->
           IF c.lrouter \notin DOMAIN db.lrouters THEN Failed(db)
           ELSE Ok([db EXCEPT !.lrouters[c.lrouter].nat =
                       [i \in 1..Len(@) |->
                           IF @[i].uuid = c.uuid
                           THEN [@[i] EXCEPT !.type = c.type,
                                             !.logical_ip = c.logical_ip,
                                             !.external_ip = c.external_ip]
                           ELSE @[i]]])
      [] c.cmd = "delete_nat_rule_in_lrouter" ->
           \* if_exists; the first matching row is deleted
           IF c.lrouter \notin DOMAIN db.lrouters THEN Ok(db)
           ELSE LET m == NatMatches(NatOf(db, c.lrouter), c)
                IN IF m = {} THEN Ok(db)
                   ELSE Ok([db EXCEPT !.lrouters[c.lrouter].nat = RemoveAt(@, Min(m))])
      [] c.cmd = "add_static_route" ->
           IF c.lrouter \notin DOMAIN db.lrouters THEN Failed(db)
           ELSE Ok([db EXCEPT !.lrouters[c.lrouter].static_routes =
                       Append(@, [ip_prefix |-> c.ip_prefix, nexthop |-> c.nexthop])])
      [] c.cmd = "delete_static_route" ->
           \* if_exists; the first matching row is deleted
           IF c.lrouter \notin DOMAIN db.lrouters THEN Ok(db)
           ELSE LET m == RouteMatches(RoutesOf(db, c.lrouter), c)
                IN IF m = {} THEN Ok(db)
                   ELSE Ok([db EXCEPT !.lrouters[c.lrouter].static_routes =
                               RemoveAt(@, Min(m))])
      [] c.cmd = "add_lrouter_port" ->
           IF c.lrouter \notin DOMAIN db.lrouters \/ c.name \in DOMAIN db.lrps
           THEN Failed(db)
           ELSE Ok([db EXCEPT !.lrps =
                       (c.name :> [lrouter |-> c.lrouter, networks |-> c.networks,
                                   gateway_chassis |-> c.gateway_chassis]) @@ @])
      [] c.cmd = "update_lrouter_port" ->
           \* if_exists=False; only the columns given are written
           IF c.name \notin DOMAIN db.lrps THEN Failed(db)
           ELSE Ok([db EXCEPT !.lrps[c.name] =
                       [col \in DOMAIN @ |-> IF col \in DOMAIN c THEN c[col] ELSE @[col]]])
      [] c.cmd = "delete_lrouter_port" ->
           IF c.name \notin DOMAIN db.lrps THEN (IF c.if_exists THEN Ok(db) ELSE Failed(db))
           ELSE IF c.lrouter \notin DOMAIN db.lrouters THEN Failed(db)
           ELSE Ok([db EXCEPT !.lrps = Without(@, c.name)])
      [] c.cmd = "delete_lswitch_port" ->
           \* if_exists
           Ok([db EXCEPT !.lsps = Without(@, c.lport_name)])
      [] c.cmd = "create_lswitch" ->
           \* may_exist: a switch of that name is left as it is
           IF SwitchVisible(db, c.lswitch_name) THEN Ok(db)
           ELSE Ok([db EXCEPT !.lswitches =
                       (c.lswitch_name :> [external_ids |-> c.external_ids,
                                           visible |-> TRUE]) @@ @])
      [] c.cmd = "delete_lswitch" ->
           \* the ports of a switch are rows of the switch and go with it
           IF ~SwitchVisible(db, c.lswitch_name)
           THEN (IF c.if_exists THEN Ok(db) ELSE Failed(db))
           ELSE Ok([db EXCEPT
                       !.lswitches = Without(@, c.lswitch_name),
                       !.lsps = Restrict(@, {n \in DOMAIN @ :
                                                @[n].lswitch # c.lswitch_name})])
      [] c.cmd = "set_lswitch_ext_id" ->
           \* if_exists
           IF ~SwitchVisible(db, c.lswitch_name) THEN Ok(db)
           ELSE Ok([db EXCEPT !.lswitches[c.lswitch_name].external_ids =
                       (c.ext_id[1] :> c.ext_id[2]) @@ @])
      [] c.cmd = "create_lswitch_port" ->
           \* the switch is looked up first; may_exist: a port of that name is
           \* left as it is
           IF ~SwitchVisible(db, c.lswitch_name) THEN Failed(db)
           ELSE IF c.lport_name \in DOMAIN db.lsps THEN Ok(db)
           ELSE Ok([db EXCEPT !.lsps =
                       (c.lport_name :>
                           [lswitch |-> c.lswitch_name, addresses |-> c.addresses,
                            port_security |-> c.port_security,
                            type |-> c.type, tag |-> c.tag, options |-> c.options,
                            dhcpv4_options |->
                                DhcpColumn(db, c.dhcpv4_options, c.stale_kept),
                            dhcpv6_options |->
                                DhcpColumn(db, c.dhcpv6_options, c.stale_kept)]) @@ @])
      [] c.cmd = "set_lswitch_port" ->
           \* only the columns given are written
           IF c.lport_name \notin DOMAIN db.lsps
           THEN (IF c.if_exists THEN Ok(db) ELSE Failed(db))
           ELSE Ok([db EXCEPT !.lsps[c.lport_name] =
                       [col \in DOMAIN @ |->
                           IF col \notin DOMAIN c THEN @[col]
                           ELSE IF col \in {"dhcpv4_options", "dhcpv6_options"}
                           THEN DhcpColumn(db, c[col], c.stale_kept)
                           ELSE c[col]]])
      [] c.cmd = "add_dhcp_options" ->
           \* may_exist: the row of (subnet_id, port_id) is rewritten if there
           \* is one, and inserted if not
           LET old == DhcpRows(db, c.subnet_id, c.port_id)
               row == [uuid |-> IF old = {} THEN db.dhcp_made + 1
                                ELSE (CHOOSE r \in old : TRUE).uuid,
                       cidr |-> c.cidr, options |-> c.options,
                       external_ids |-> c.external_ids]
           IN Ok([db EXCEPT !.dhcp = (@ \ old) \cup {row},
                            !.dhcp_made = IF old = {} THEN @ + 1 ELSE @])
      [] c.cmd = "delete_dhcp_options" ->
           \* if_exists; the columns that hold the row's uuid lose it
           Ok([db EXCEPT !.dhcp = {row \in @ : row.uuid # c.uuid},
                         !.lsps = [n \in DOMAIN @ |->
                                     [@[n] EXCEPT
                                        !.dhcpv4_options =
                                            IF @ = <<c.uuid>> THEN <<>> ELSE @,
                                        !.dhcpv6_options =
                                            IF @ = <<c.uuid>> THEN <<>> ELSE @]]])
      [] c.cmd = "create_address_set" ->
           \* may_exist
           IF c.name \in DOMAIN db.asets THEN Ok(db)
           ELSE Ok([db EXCEPT !.asets = (c.name :> {}) @@ @])
      [] c.cmd = "delete_address_set" ->
           \* if_exists
           Ok([db EXCEPT !.asets = Without(@, c.name)])
      [] c.cmd = "update_address_set_ext_ids" ->
           \* if_exists
           Ok(db)
      [] c.cmd = "update_address_set" ->
           IF c.name \notin DOMAIN db.asets
           THEN (IF c.if_exists THEN Ok(db) ELSE Failed(db))
           ELSE Ok([db EXCEPT !.asets[c.name] = (@ \cup c.addrs_add) \ c.addrs_remove])
      [] c.cmd \in {"add_acl", "update_acls", "delete_acl"} ->
           \* the ACL table is not modelled
           Ok(db)
      [] c.cmd = "set_lrouter_port_in_lswitch_port" ->
           \* if_exists; it writes the type and options of the switch port only
           Ok(db)

\* Body applied to the value of v: the value is computed once, as the
\* result of a statement is, before what follows uses it.
Bind(v, Body(_)) == CHOOSE y \in {Body(x) : x \in {v}} : TRUE

RECURSIVE RunCommands(_, _)
RunCommands(db, cmds) ==
    IF cmds = <<>> THEN Ok(db)
    ELSE Bind(RunCommand(db, Head(cmds)),
              LAMBDA r : IF r.ok THEN RunCommands(r.db, Tail(cmds)) ELSE Failed(db))

(***************************************************************************)
(* nb_idl.transaction(check_error=True): the commands commit together, or  *)
(* the database is unchanged and the caller sees an exception.             *)
(*   db: the database afterwards; raised: whether an exception leaves the  *)
(*   with block; txns: the transactions opened, each [cmds, committed].    *)
(***************************************************************************)
transaction(db, cmds, commit) ==
    Bind(IF commit THEN RunCommands(db, cmds) ELSE Failed(db),
         LAMBDA r : [db |-> IF r.ok THEN r.db ELSE db,
                     raised |-> ~r.ok,
                     txns |-> <<[cmds |-> cmds, committed |-> r.ok]>>])

\* An exception before any transaction was opened.
Raise(db) == [db |-> db, raised |-> TRUE, txns |-> <<>>]

\* Nothing done.
Skip(db) == [db |-> db, raised |-> FALSE, txns |-> <<>>]

\* Two steps in sequence: the second runs only if the first did not raise.
Then(a, b) ==
    Bind(a, LAMBDA x :
        IF x.raised THEN x
        ELSE Bind(b, LAMBDA y :
                 [db |-> y.db, raised |-> y.raised, txns |-> x.txns \o y.txns]))

(***************************************************************************)
(* ovn_client.py: floating IPs.                                            *)
(*   floatingip: [fip_port_id, fip_net_id, logical_ip, external_ip]        *)
(***************************************************************************)
\* nb_idl.get_lrouter_nat_rules raises when the logical router does not exist.
get_lrouter_nat_rules(db, lrouter_name) == NatOf(db, lrouter_name)

\* AssociateNatCommand without the search for an existing row.
AssociateNatCommandAdd(db, gw_lrouter_name, floatingip) ==
    [cmd |-> "add_nat_rule_in_lrouter", lrouter |-> gw_lrouter_name,
     type |-> "dnat_and_snat", logical_ip |-> floatingip.logical_ip,
     external_ip |-> floatingip.external_ip]

\* The NAT command of an association: the first dnat_and_snat row with the
\* floating IP's external IP is rewritten; with none, a row is added.
AssociateNatCommand(db, gw_lrouter_name, floatingip) ==
    LET lrouter_nat_rules == get_lrouter_nat_rules(db, gw_lrouter_name)
        found == {i \in 1..Len(lrouter_nat_rules) :
                     /\ lrouter_nat_rules[i].external_ip = floatingip.external_ip
                     /\ lrouter_nat_rules[i].type = "dnat_and_snat"}
    IN IF found # {}
       THEN [cmd |-> "set_nat_rule_in_lrouter", lrouter |-> gw_lrouter_name,
             uuid |-> lrouter_nat_rules[Min(found)].uuid,
             type |-> "dnat_and_snat", logical_ip |-> floatingip.logical_ip,
             external_ip |-> floatingip.external_ip]
       ELSE [cmd |-> "add_nat_rule_in_lrouter", lrouter |-> gw_lrouter_name,
             type |-> "dnat_and_snat", logical_ip |-> floatingip.logical_ip,
             external_ip |-> floatingip.external_ip]

_update_floatingip(db, floatingip, router_id, associate, commit) ==
    LET gw_lrouter_name == ovn_name(router_id)
    IN IF associate
       THEN IF gw_lrouter_name \notin DOMAIN db.lrouters
            THEN Raise(db)
            ELSE transaction(db,
                     <<[cmd |-> "delete_lswitch_port",
                        lport_name |-> floatingip.fip_port_id,
                        lswitch_name |-> ovn_name(floatingip.fip_net_id)],
                       AssociateNatCommand(db, gw_lrouter_name, floatingip)>>,
                     commit)
       ELSE transaction(db,
                <<[cmd |-> "delete_nat_rule_in_lrouter", lrouter |-> gw_lrouter_name,
                   type |-> "dnat_and_snat", logical_ip |-> floatingip.logical_ip,
                   external_ip |-> floatingip.external_ip]>>,
                commit)

\* Each entry point logs and re-raises what _update_floatingip raises.
create_floatingip(db, floatingip, router_id, commit) ==
    _update_floatingip(db, floatingip, router_id, TRUE, commit)

update_floatingip(db, floatingip, router_id, associate, commit) ==
    _update_floatingip(db, floatingip, router_id, associate, commit)

delete_floatingip(db, floatingip, router_id, commit) ==
    _update_floatingip(db, floatingip, router_id, FALSE, commit)

disassociate_floatingip(db, floatingip, router_id, commit) ==
    _update_floatingip(db, floatingip, router_id, FALSE, commit)

(***************************************************************************)
(* The Neutron side: subnets, and the router and port dictionaries the     *)
(* core plugin hands out.                                                  *)
(***************************************************************************)
Subnets ==
    [e4  |-> [ip_version |-> 4, cidr |-> "x4/24", gateway_ip |-> "g1", network_id |-> "ext1"],
     e6  |-> [ip_version |-> 6, cidr |-> "x6/64", gateway_ip |-> "g6", network_id |-> "ext1"],
     e4b |-> [ip_version |-> 4, cidr |-> "y4/24", gateway_ip |-> "g2", network_id |-> "ext2"],
     s1  |-> [ip_version |-> 4, cidr |-> "n1/24", gateway_ip |-> "a1", network_id |-> "netA"],
     s6  |-> [ip_version |-> 6, cidr |-> "n6/64", gateway_ip |-> "a6", network_id |-> "netA"],
     s2  |-> [ip_version |-> 4, cidr |-> "n2/24", gateway_ip |-> "b1", network_id |-> "netB"]]

\* self._plugin.get_subnet(context, subnet_id): the subnet as Neutron holds it
\* when the call is made; the gateway IP of an external subnet may have been
\* changed since the subnet was made.
get_subnet(subnet_id) ==
    IF subnet_id \in DOMAIN cloud.gateway_ips
    THEN [Subnets[subnet_id] EXCEPT !.gateway_ip = cloud.gateway_ips[subnet_id]]
    ELSE Subnets[subnet_id]

\* The subnets of the external networks.
ExternalSubnets == {"e4", "e6", "e4b"}

\* The prefix length of a subnet's cidr.
PrefixLen(subnet_id) == IF Subnets[subnet_id].ip_version = 4 THEN 24 ELSE 64

\* The address a router port has on a subnet.
AddressOn ==
    [e4 |-> "x4.5", e6 |-> "x6::5", e4b |-> "y4.5", s1 |-> "n1.1", s6 |-> "n6::1", s2 |-> "n2.1"]

FixedIp(subnet_id) == [subnet_id |-> subnet_id, ip_address |-> AddressOn[subnet_id]]

(***************************************************************************)
(* ovn_client.py: routers.                                                 *)
(*   router: [id, name, admin_state_up, gw_port_id, external_gateway_info, *)
(*            routes]; external_gateway_info is NoneRec or                 *)
(*            [network_id, external_fixed_ips, enable_snat]                *)
(***************************************************************************)
\* utils.is_snat_enabled
is_snat_enabled(router) == router.external_gateway_info.enable_snat

\* The first external fixed IP on an IPv4 subnet, and that subnet's gateway IP.
\* A variant that takes the first external fixed IP whatever its version.
ExternalIpOfAnyVersion(router) ==
    LET ext_gw_info == router.external_gateway_info
        ext_fixed_ips == IF ext_gw_info = NoneRec THEN <<>>
                         ELSE ext_gw_info.external_fixed_ips
    IN IF ext_fixed_ips = <<>> THEN <<"", "">>
       ELSE <<ext_fixed_ips[1].ip_address, get_subnet(ext_fixed_ips[1].subnet_id).gateway_ip>>

_get_external_router_and_gateway_ip(router) ==
    LET ext_gw_info == router.external_gateway_info
        ext_fixed_ips == IF ext_gw_info = NoneRec THEN <<>>
                         ELSE ext_gw_info.external_fixed_ips
        v4 == {i \in 1..Len(ext_fixed_ips) :
                  get_subnet(ext_fixed_ips[i].subnet_id).ip_version = 4}
    IN IF v4 = {} THEN <<"", "">>
       ELSE <<ext_fixed_ips[Min(v4)].ip_address,
              get_subnet(ext_fixed_ips[Min(v4)].subnet_id).gateway_ip>>

_update_router_routes(db, router_id, add, remove, commit) ==
    LET lrouter_name == ovn_name(router_id)
    IN transaction(db,
           [i \in 1..Len(add) |->
               [cmd |-> "add_static_route", lrouter |-> lrouter_name,
                ip_prefix |-> add[i].destination, nexthop |-> add[i].nexthop]]
           \o [i \in 1..Len(remove) |->
               [cmd |-> "delete_static_route", lrouter |-> lrouter_name,
                ip_prefix |-> remove[i].destination, nexthop |-> remove[i].nexthop]],
           commit)

\* _delete_router_ext_gw without the deletion of the default route.
DeleteRouterExtGwKeepsRoute(db, router, networks, commit) ==
    LET gw_lrouter_name == ovn_name(router.id)
        ips == _get_external_router_and_gateway_ip(router)
        nets == IF networks = NoNetworks THEN <<>> ELSE networks
    IN transaction(db,
           <<[cmd |-> "delete_lrouter_port",
              name |-> ovn_lrouter_port_name(router.gw_port_id),
              lrouter |-> gw_lrouter_name, if_exists |-> TRUE]>>
           \o [i \in 1..Len(nets) |->
               [cmd |-> "delete_nat_rule_in_lrouter", lrouter |-> gw_lrouter_name,
                type |-> "snat", logical_ip |-> nets[i], external_ip |-> ips[1]]],
           commit)

\* _delete_router_ext_gw with its commands in the reverse of the order of
\* the addition.
DeleteRouterExtGwSnatFirst(db, router, networks, commit) ==
    LET gw_lrouter_name == ovn_name(router.id)
        ips == _get_external_router_and_gateway_ip(router)
        nets == IF networks = NoNetworks THEN <<>> ELSE networks
    IN transaction(db,
           [i \in 1..Len(nets) |->
               [cmd |-> "delete_nat_rule_in_lrouter", lrouter |-> gw_lrouter_name,
                type |-> "snat", logical_ip |-> nets[i], external_ip |-> ips[1]]]
           \o <<[cmd |-> "delete_static_route", lrouter |-> gw_lrouter_name,
                 ip_prefix |-> "0.0.0.0/0", nexthop |-> ips[2]],
                [cmd |-> "delete_lrouter_port",
                 name |-> ovn_lrouter_port_name(router.gw_port_id),
                 lrouter |-> gw_lrouter_name, if_exists |-> TRUE]>>,
           commit)

_delete_router_ext_gw(db, router, networks, commit) ==
    LET gw_lrouter_name == ovn_name(router.id)
        ips == _get_external_router_and_gateway_ip(router)
        router_ip == ips[1]
        ext_gw_ip == ips[2]
        nets == IF networks = NoNetworks THEN <<>> ELSE networks
    IN transaction(db,
           <<[cmd |-> "delete_static_route", lrouter |-> gw_lrouter_name,
              ip_prefix |-> "0.0.0.0/0", nexthop |-> ext_gw_ip],
             [cmd |-> "delete_lrouter_port",
              name |-> ovn_lrouter_port_name(router.gw_port_id),
              lrouter |-> gw_lrouter_name, if_exists |-> TRUE]>>
           \o [i \in 1..Len(nets) |->
               [cmd |-> "delete_nat_rule_in_lrouter", lrouter |-> gw_lrouter_name,
                type |-> "snat", logical_ip |-> nets[i], external_ip |-> router_ip]],
           commit)

\* "<ip>/<prefixlen>" for every fixed IP, as a set.
_get_networks_for_router_port(port_fixed_ips) ==
    {<<port_fixed_ips[i].ip_address, PrefixLen(port_fixed_ips[i].subnet_id)>> :
        i \in 1..Len(port_fixed_ips)}

(***************************************************************************)
(* The gateway scheduler.  cloud.chassis is the chassis inventory of the   *)
(* southbound database: chassis -> the physical networks it advertises.    *)
(***************************************************************************)
Chassis == <<"c1", "c2">>

OVN_GATEWAY_INVALID_CHASSIS == "neutron-ovn-invalid-chassis"

\* The gateway ports bound to a chassis, gateway_name aside.
ChassisLoad(db, chassis, gateway_name) ==
    Cardinality({n \in DOMAIN db.lrps \ {gateway_name} :
                    db.lrps[n].gateway_chassis = chassis})

\* scheduler.select: of the candidates, or of every chassis when none is
\* given, the least loaded one, the first in the order of the names among
\* equals; the invalid chassis when there is none to choose from.
select(db, chassis_physnets, gateway_name, candidates) ==
    LET pool == IF candidates # {} THEN candidates ELSE DOMAIN chassis_physnets
        least == {ch \in pool : \A other \in pool :
                     ChassisLoad(db, ch, gateway_name)
                         <= ChassisLoad(db, other, gateway_name)}
    IN IF pool = {} THEN OVN_GATEWAY_INVALID_CHASSIS
       ELSE Chassis[Min({i \in 1..Len(Chassis) : Chassis[i] \in least})]

\* port: [id, device_owner, fixed_ips]
create_router_port(db, router_id, port, commit) ==
    LET lrouter == ovn_name(router_id)
        lrouter_port_name == ovn_lrouter_port_name(port.id)
        is_gw_port == port.device_owner = "network:router_gateway"
    IN transaction(db,
           <<[cmd |-> "add_lrouter_port", name |-> lrouter_port_name,
              lrouter |-> lrouter,
              networks |-> _get_networks_for_router_port(port.fixed_ips),
              gateway_chassis |-> IF is_gw_port
                                  THEN select(db, cloud.chassis, lrouter_port_name, {})
                                  ELSE None],
             [cmd |-> "set_lrouter_port_in_lswitch_port", lport_name |-> port.id,
              lrouter_port |-> lrouter_port_name]>>,
           commit)

update_router_port(db, router_id, port, commit) ==
    LET lrouter_port_name == ovn_lrouter_port_name(port.id)
    IN transaction(db,
           <<[cmd |-> "update_lrouter_port", name |-> lrouter_port_name,
              networks |-> _get_networks_for_router_port(port.fixed_ips)],
             [cmd |-> "set_lrouter_port_in_lswitch_port", lport_name |-> port.id,
              lrouter_port |-> lrouter_port_name]>>,
           commit)

\* delete_router_port that writes the switch port and leaves the logical
\* router port.
DeleteRouterPortOfSwitchOnly(db, port_id, router_id, commit) ==
    transaction(db,
        <<[cmd |-> "set_lrouter_port_in_lswitch_port", lport_name |-> port_id,
           lrouter_port |-> ovn_lrouter_port_name(port_id)]>>,
        commit)

delete_router_port(db, port_id, router_id, commit) ==
    transaction(db,
        <<[cmd |-> "delete_lrouter_port", name |-> ovn_lrouter_port_name(port_id),
           lrouter |-> ovn_name(router_id), if_exists |-> TRUE]>>,
        commit)

\* update_nat_rules whose delete matches any snat row of the router's
\* external IP, whatever its logical_ip.
UpdateNatRulesAnyNetwork(db, router, networks, enable_snat, commit) ==
    LET gw_lrouter_name == ovn_name(router.id)
        router_ip == _get_external_router_and_gateway_ip(router)[1]
        rules == IF gw_lrouter_name \in DOMAIN db.lrouters
                 THEN NatOf(db, gw_lrouter_name) ELSE <<>>
        snats == {i \in 1..Len(rules) : rules[i].type = "snat"}
    IN transaction(db,
           [i \in 1..Len(networks) |->
               [cmd |-> IF enable_snat THEN "add_nat_rule_in_lrouter"
                        ELSE "delete_nat_rule_in_lrouter",
                lrouter |-> gw_lrouter_name, type |-> "snat",
                logical_ip |-> IF enable_snat \/ snats = {} THEN networks[i]
                               ELSE rules[Min(snats)].logical_ip,
                external_ip |-> router_ip]],
           commit)

update_nat_rules(db, router, networks, enable_snat, commit) ==
    LET gw_lrouter_name == ovn_name(router.id)
        router_ip == _get_external_router_and_gateway_ip(router)[1]
    IN transaction(db,
           [i \in 1..Len(networks) |->
               [cmd |-> IF enable_snat THEN "add_nat_rule_in_lrouter"
                        ELSE "delete_nat_rule_in_lrouter",
                lrouter |-> gw_lrouter_name, type |-> "snat",
                logical_ip |-> networks[i], external_ip |-> router_ip]],
           commit)

\* The compensation of a failed step of _add_router_ext_gw: the step's
\* exception is re-raised after _delete_router_ext_gw has run.  The
\* compensation's own transaction is taken to commit unless one of its
\* commands fails on the database.
Compensate(failed, router, networks) ==
    Bind(_delete_router_ext_gw(failed.db, router, networks, TRUE),
         LAMBDA undo : [db |-> undo.db, raised |-> TRUE,
                        txns |-> failed.txns \o undo.txns])

\* get_port(gw_port_id): the gateway port of a router.
GwPort(router) ==
    [id |-> router.gw_port_id, device_owner |-> "network:router_gateway",
     fixed_ips |-> router.external_gateway_info.external_fixed_ips]

\* A variant that stops after the gateway port.
AddRouterExtGwPortOnly(db, router, networks, commits) ==
    Bind(create_router_port(db, router.id, GwPort(router), commits[1]),
         LAMBDA step1 : IF step1.raised THEN Compensate(step1, router, networks) ELSE step1)

\* commits: whether the environment lets the transaction of step 1, 2, 3 commit.
_add_router_ext_gw(db, router, networks, commits) ==
    LET ext_gw_ip == _get_external_router_and_gateway_ip(router)[2]
        route == <<[destination |-> "0.0.0.0/0", nexthop |-> ext_gw_ip]>>
    IN Bind(create_router_port(db, router.id, GwPort(router), commits[1]),
        LAMBDA step1 :
          IF step1.raised THEN Compensate(step1, router, networks)
          ELSE Bind(Then(step1, _update_router_routes(step1.db, router.id, route, <<>>,
                                                      commits[2])),
        LAMBDA step2 :
          IF step2.raised THEN Compensate(step2, router, networks)
          ELSE IF is_snat_enabled(router) /\ networks # <<>>
          THEN Bind(Then(step2, update_nat_rules(step2.db, router, networks, TRUE,
                                                 commits[3])),
        LAMBDA step3 :
          IF step3.raised THEN Compensate(step3, router, networks) ELSE step3)
          ELSE step2))

_check_external_ips_changed(gateway_old, gateway_new) ==
    LET old_ext_ips == gateway_old.external_fixed_ips
        new_ext_ips == gateway_new.external_fixed_ips
    IN \/ gateway_old.network_id # gateway_new.network_id
       \/ {old_ext_ips[i].subnet_id : i \in 1..Len(old_ext_ips)}
            # {new_ext_ips[i].subnet_id : i \in 1..Len(new_ext_ips)}
       \/ {old_ext_ips[i].ip_address : i \in 1..Len(old_ext_ips)}
            # {new_ext_ips[i].ip_address : i \in 1..Len(new_ext_ips)}

_update_lrouter_routes(db, router_id, add, remove, commit) ==
    IF add = <<>> /\ remove = <<>> THEN Skip(db)
    ELSE _update_router_routes(db, router_id, add, remove, commit)

\* commits: [create, add] the environment's answer to the transaction that
\* creates the logical router and to those of the three gateway steps.
create_router(db, router, networks, commits) ==
    Bind(transaction(db,
             <<[cmd |-> "create_lrouter", name |-> ovn_name(router.id),
                external_ids |-> router.name, enabled |-> router.admin_state_up]>>,
             commits.create),
         LAMBDA created :
           IF created.raised THEN created
           ELSE IF router.external_gateway_info # NoneRec /\ networks # NoNetworks
           THEN Then(created,
                     _add_router_ext_gw(created.db, router, networks, commits.add))
           ELSE created)

\* helpers.diff_list_of_dict: what is only in the new list, what is only in the old.
diff_list_of_dict(old_list, new_list) ==
    [added |-> SelectSeq(new_list, LAMBDA x : x \notin Range(old_list)),
     removed |-> SelectSeq(old_list, LAMBDA x : x \notin Range(new_list))]

\* The gateway part of update_router: the body of its first try block.
UpdateRouterGateway(db, new_router, original_router, networks, commits) ==
    LET gateway_new == new_router.external_gateway_info
        gateway_old == original_router.external_gateway_info
    IN IF gateway_new # NoneRec /\ gateway_old = NoneRec
       THEN _add_router_ext_gw(db, new_router, networks, commits.add)
       ELSE IF gateway_old # NoneRec /\ gateway_new = NoneRec
       THEN _delete_router_ext_gw(db, original_router, networks, commits.del)
       ELSE IF gateway_new # NoneRec /\ gateway_old # NoneRec
       THEN IF _check_external_ips_changed(gateway_old, gateway_new)
            THEN Bind(_delete_router_ext_gw(db, original_router, networks, commits.del),
                      LAMBDA deleted :
                        Then(deleted, _add_router_ext_gw(deleted.db, new_router, networks,
                                                         commits.add)))
            ELSE IF gateway_old.enable_snat # gateway_new.enable_snat
                    /\ is_snat_enabled(new_router) /\ networks # <<>>
            THEN update_nat_rules(db, new_router, networks, gateway_new.enable_snat,
                                  commits.nat)
            ELSE Skip(db)
       ELSE Skip(db)

\* delta: [admin_state_up, name, routes], each <<>> when the request omits it
\* and <<value>> when it gives it.
\* commits: [del, add, nat, upd, routes].
update_router(db, new_router, original_router, delta, networks, commits) ==
    LET router_id == new_router.id
        enabled == delta.admin_state_up
        setEnabled == enabled # <<>> /\ enabled[1]
                      /\ enabled[1] # original_router.admin_state_up
        name == delta.name
        setName == name # <<>> /\ name[1] # "" /\ name[1] # original_router.name
        routes == IF delta.routes = <<>> THEN <<>> ELSE delta.routes[1]
        diff == diff_list_of_dict(original_router.routes, routes)
    IN Bind(UpdateRouterGateway(db, new_router, original_router, networks, commits),
        LAMBDA gw :
          Bind(Then(gw, IF setEnabled \/ setName
                        THEN transaction(gw.db,
                                 <<[cmd |-> "update_lrouter", name |-> ovn_name(router_id),
                                    enabled |-> IF setEnabled THEN enabled ELSE <<>>,
                                    external_ids |-> IF setName THEN name ELSE <<>>]>>,
                                 commits.upd)
                        ELSE Skip(gw.db)),
        LAMBDA upd :
          Then(upd, IF routes # <<>>
                    THEN _update_lrouter_routes(upd.db, router_id, diff.added,
                                                diff.removed, commits.routes)
                    ELSE Skip(upd.db))))

delete_router(db, router_id, commit) ==
    transaction(db, <<[cmd |-> "delete_lrouter", name |-> ovn_name(router_id)]>>, commit)

(***************************************************************************)
(* The Neutron database, as the L3 plugin's base class keeps it.           *)
(*   cloud.routers : router id -> NoneRec or [name, admin_state_up, gw,    *)
(*                   routes, ports]; gw is the external_gateway_info and   *)
(*                   ports maps the router's interface ports to the        *)
(*                   subnets of their fixed IPs, in order                  *)
(*   cloud.fips    : floating IP address -> NoneRec or [port_id,           *)
(*                   fixed_ip_address, router_id]                          *)
(* An interface port is named by its router and the subnet it was created  *)
(* for, a gateway port by its router and the external network.             *)
(***************************************************************************)
\* The order in which a router's interface ports are listed.
IfPortOrder == <<"s1", "s2", "s6">>

\* self.get_router(context, id)
get_router(cl, router_id) ==
    LET c == cl.routers[router_id]
    IN [id |-> router_id, name |-> c.name, admin_state_up |-> c.admin_state_up,
        gw_port_id |-> IF c.gw = NoneRec THEN <<router_id, None>>
                       ELSE <<router_id, c.gw.network_id>>,
        external_gateway_info |-> c.gw, routes |-> c.routes]

\* self._plugin.get_port(context, port_id) for an interface port of a router.
get_port(cl, router_id, key) ==
    LET subnets == cl.routers[router_id].ports[key]
    IN [id |-> <<router_id, key>>, device_owner |-> "network:router_interface",
        fixed_ips |-> [i \in 1..Len(subnets) |-> FixedIp(subnets[i])]]

_get_router_ports(cl, router_id) ==
    LET keys == SelectSeq(IfPortOrder, LAMBDA k : k \in DOMAIN cl.routers[router_id].ports)
    IN [i \in 1..Len(keys) |-> get_port(cl, router_id, keys[i])]

\* The cidr of the last fixed IP on an IPv4 subnet, or None.
_get_v4_network_for_router_port(port) ==
    LET v4 == {i \in 1..Len(port.fixed_ips) :
                  get_subnet(port.fixed_ips[i].subnet_id).ip_version = 4}
    IN IF v4 = {} THEN None
       ELSE get_subnet(port.fixed_ips[CHOOSE i \in v4 : \A j \in v4 : j <= i].subnet_id).cidr

_get_v4_network_of_all_router_ports(cl, router_id) ==
    LET ports == _get_router_ports(cl, router_id)
        nets == [i \in 1..Len(ports) |-> _get_v4_network_for_router_port(ports[i])]
    IN SelectSeq(nets, LAMBDA n : n # None)

(***************************************************************************)
(* l3_ovn.py: routers.  An operation of the plugin yields the database,    *)
(* the Neutron database, whether it raised, and its transactions.          *)
(***************************************************************************)
L3Result(r, cl) ==
    Bind(r, LAMBDA x : [db |-> x.db, cloud |-> cl, raised |-> x.raised, txns |-> x.txns])

\* req: [name, admin_state_up, gw]
l3_create_router(db, cl, router_id, req, commits) ==
    LET made == [cl EXCEPT !.routers[router_id] =
                    [name |-> req.name, admin_state_up |-> req.admin_state_up,
                     gw |-> req.gw, routes |-> <<>>, ports |-> <<>>]]
        networks == _get_v4_network_of_all_router_ports(made, router_id)
    IN \* on an exception the Neutron router is deleted again
       Bind(create_router(db, get_router(made, router_id), networks, commits),
            LAMBDA r : L3Result(r, IF r.raised THEN cl ELSE made))

\* req: [gw, delta]; delta as for the client's update_router
l3_update_router(db, cl, router_id, req, commits) ==
    LET original_router == get_router(cl, router_id)
        updated == [cl EXCEPT !.routers[router_id] =
                       [@ EXCEPT !.gw = req.gw,
                                 !.admin_state_up = IF req.delta.admin_state_up = <<>>
                                                    THEN @ ELSE req.delta.admin_state_up[1],
                                 !.name = IF req.delta.name = <<>> THEN @
                                          ELSE req.delta.name[1],
                                 !.routes = IF req.delta.routes = <<>> THEN @
                                            ELSE req.delta.routes[1]]]
        networks == _get_v4_network_of_all_router_ports(updated, router_id)
    IN \* on an exception the Neutron router is set back to the original
       Bind(update_router(db, get_router(updated, router_id), original_router,
                          req.delta, networks, commits),
            LAMBDA r : L3Result(r, IF r.raised THEN cl ELSE updated))

l3_delete_router(db, cl, router_id, commit) ==
    \* on an exception the Neutron router is created again
    Bind(delete_router(db, router_id, commit),
         LAMBDA r : L3Result(r, IF r.raised THEN cl
                                ELSE [cl EXCEPT !.routers[router_id] = NoneRec]))

(***************************************************************************)
(* Router interfaces.  The base class (Neutron) attaches a subnet to the   *)
(* router: an IPv4 subnet gets a port of its own; an IPv6 subnet joins the *)
(* router's port on the same network when there is one.  A port may also   *)
(* be attached as it is.                                                   *)
(*   interface_info: [subnet_id] or [port_id, fixed]; fixed is the list of *)
(*   subnets of the given port.                                            *)
(*   router_interface_info: [key, port_id, subnet_id, subnet_ids]          *)
(***************************************************************************)
SubnetsOfRouter(cl, router_id) ==
    UNION {Range(cl.routers[router_id].ports[k]) : k \in DOMAIN cl.routers[router_id].ports}

\* The router's port on the network of subnet s, when s is an IPv6 subnet.
PortToJoin(cl, router_id, s) ==
    {k \in DOMAIN cl.routers[router_id].ports :
        /\ Subnets[s].ip_version = 6
        /\ Subnets[cl.routers[router_id].ports[k][1]].network_id = Subnets[s].network_id}

\* super().add_router_interface
NeutronAddRouterInterface(cl, router_id, interface_info) ==
    IF "subnet_id" \in DOMAIN interface_info
    THEN LET s == interface_info.subnet_id
             join == PortToJoin(cl, router_id, s)
             key == IF join = {} THEN s ELSE CHOOSE k \in join : TRUE
         IN [cloud |-> [cl EXCEPT !.routers[router_id].ports =
                           IF join = {} THEN (key :> <<s>>) @@ @
                           ELSE [@ EXCEPT ![key] = Append(@, s)]],
             info |-> [key |-> key, port_id |-> <<router_id, key>>, subnet_id |-> s,
                       subnet_ids |-> <<s>>]]
    ELSE LET key == interface_info.port_id
         IN [cloud |-> [cl EXCEPT !.routers[router_id].ports =
                           (key :> interface_info.fixed) @@ @],
             info |-> [key |-> key, port_id |-> <<router_id, key>>,
                       subnet_id |-> interface_info.fixed[1],
                       subnet_ids |-> interface_info.fixed]]

\* super().remove_router_interface by subnet: the port loses the subnet's
\* address, and is deleted with its last address.
NeutronRemoveRouterInterface(cl, router_id, s) ==
    LET key == CHOOSE k \in DOMAIN cl.routers[router_id].ports :
                   s \in Range(cl.routers[router_id].ports[k])
        left == SelectSeq(cl.routers[router_id].ports[key], LAMBDA x : x # s)
    IN [cloud |-> [cl EXCEPT !.routers[router_id].ports =
                      IF left = <<>> THEN Without(@, key) ELSE [@ EXCEPT ![key] = left]],
        info |-> [key |-> key, port_id |-> <<router_id, key>>, subnet_id |-> s,
                  subnet_ids |-> <<s>>]]

\* super().remove_router_interface given a port id: the port is deleted.
NeutronRemoveRouterPort(cl, router_id, key) ==
    [cl EXCEPT !.routers[router_id].ports = Without(@, key)]

\* Python's "a is not b" on two strings: unequal strings are never the same
\* object; whether equal strings are is up to the interpreter (same_obj).
IsNot(a, b, same_obj) == a # b \/ ~same_obj

\* The cidr add_router_interface gives to update_nat_rules: that of the last
\* fixed IP on an IPv4 subnet among those the loop does not skip, or None.
AddedCidr(port, interface_info, multi_prefix, same_obj) ==
    LET kept == {i \in 1..Len(port.fixed_ips) :
                    /\ ~(/\ multi_prefix
                         /\ "subnet_id" \in DOMAIN interface_info
                         /\ IsNot(port.fixed_ips[i].subnet_id, interface_info.subnet_id,
                                  same_obj))
                    /\ get_subnet(port.fixed_ips[i].subnet_id).ip_version = 4}
    IN IF kept = {} THEN None
       ELSE get_subnet(port.fixed_ips[CHOOSE i \in kept : \A j \in kept : j <= i].subnet_id).cidr

\* add_router_interface without the handler of a failed SNAT update.
AddRouterInterfaceWithoutUndo(db, cl, router_id, interface_info, same_obj, commits) ==
    LET added == NeutronAddRouterInterface(cl, router_id, interface_info)
        info == added.info
        port == get_port(added.cloud, router_id, info.key)
        multi_prefix == Len(info.subnet_ids) = 1 /\ Len(port.fixed_ips) > 1
        router == get_router(added.cloud, router_id)
        cidr == AddedCidr(port, interface_info, multi_prefix, same_obj)
    IN Bind(IF multi_prefix
            THEN update_router_port(db, router_id, port, commits.port)
            ELSE create_router_port(db, router_id, port, commits.port),
        LAMBDA lrp :
          IF lrp.raised \/ router.external_gateway_info = NoneRec
          THEN L3Result(lrp, added.cloud)
          ELSE IF ~(is_snat_enabled(router) /\ cidr # None)
          THEN L3Result(lrp, added.cloud)
          ELSE L3Result(Then(lrp, update_nat_rules(lrp.db, router, <<cidr>>, TRUE,
                                                   commits.nat)),
                        added.cloud))

\* commits: [port, nat]
l3_add_router_interface(db, cl, router_id, interface_info, same_obj, commits) ==
    LET added == NeutronAddRouterInterface(cl, router_id, interface_info)
        info == added.info
        port == get_port(added.cloud, router_id, info.key)
        multi_prefix == Len(info.subnet_ids) = 1 /\ Len(port.fixed_ips) > 1
        router == get_router(added.cloud, router_id)
        cidr == AddedCidr(port, interface_info, multi_prefix, same_obj)
    IN Bind(IF multi_prefix
            THEN update_router_port(db, router_id, port, commits.port)
            ELSE create_router_port(db, router_id, port, commits.port),
        LAMBDA lrp :
          IF lrp.raised \/ router.external_gateway_info = NoneRec
          THEN L3Result(lrp, added.cloud)
          ELSE IF ~(is_snat_enabled(router) /\ cidr # None)
          THEN L3Result(lrp, added.cloud)
          ELSE Bind(Then(lrp, update_nat_rules(lrp.db, router, <<cidr>>, TRUE, commits.nat)),
        LAMBDA snat :
          IF ~snat.raised THEN L3Result(snat, added.cloud)
          ELSE \* the compensation: the logical router port is deleted and the
               \* interface taken off the Neutron router again
               Bind(transaction(snat.db,
                        <<[cmd |-> "delete_lrouter_port",
                           name |-> ovn_lrouter_port_name(port.id),
                           lrouter |-> ovn_name(router_id), if_exists |-> TRUE]>>,
                        TRUE),
        LAMBDA undo :
          [db |-> undo.db,
           cloud |-> IF undo.raised THEN added.cloud
                     ELSE NeutronRemoveRouterPort(added.cloud, router_id, info.key),
           raised |-> TRUE, txns |-> snat.txns \o undo.txns])))

\* The cidr remove_router_interface gives to update_nat_rules, or None.
RemovedCidr(interface_info, info, multi_prefix) ==
    IF multi_prefix
    THEN IF get_subnet(interface_info.subnet_id).ip_version = 4
         THEN get_subnet(interface_info.subnet_id).cidr ELSE None
    ELSE LET v4 == {i \in 1..Len(info.subnet_ids) :
                       get_subnet(info.subnet_ids[i]).ip_version = 4}
         IN IF v4 = {} THEN None ELSE get_subnet(info.subnet_ids[Min(v4)]).cidr

\* interface_info: [subnet_id]; commits: [port, nat]
l3_remove_router_interface(db, cl, router_id, interface_info, commits) ==
    LET removed == NeutronRemoveRouterInterface(cl, router_id, interface_info.subnet_id)
        info == removed.info
        router == get_router(removed.cloud, router_id)
        multi_prefix == info.key \in DOMAIN removed.cloud.routers[router_id].ports
        cidr == RemovedCidr(interface_info, info, multi_prefix)
    IN Bind(IF multi_prefix
            THEN update_router_port(db, router_id,
                                    get_port(removed.cloud, router_id, info.key),
                                    commits.port)
            ELSE delete_router_port(db, info.port_id, router_id, commits.port),
        LAMBDA lrp :
          IF lrp.raised \/ router.external_gateway_info = NoneRec
          THEN L3Result(lrp, removed.cloud)
          ELSE IF ~(is_snat_enabled(router) /\ cidr # None)
          THEN L3Result(lrp, removed.cloud)
          ELSE Bind(Then(lrp, update_nat_rules(lrp.db, router, <<cidr>>, FALSE,
                                               commits.nat)),
        LAMBDA snat :
          \* on an exception the interface is put back on the Neutron router
          L3Result(snat,
                   IF snat.raised
                   THEN NeutronAddRouterInterface(removed.cloud, router_id,
                                                  interface_info).cloud
                   ELSE removed.cloud)))

(***************************************************************************)
(* l3_ovn.py: floating IPs.  A floating IP is known by its address; its    *)
(* Neutron row says which port and fixed IP it is associated with and the  *)
(* router that serves them.                                                *)
(***************************************************************************)
FloatingIps == <<"f1", "f2">>

Unassociated == [port_id |-> None, fixed_ip_address |-> None, router_id |-> None]

\* The ports a floating IP can be associated with, all behind router r1.
Targets ==
    {[port_id |-> "vm1", fixed_ip_address |-> "l1", router_id |-> "r1"],
     [port_id |-> "vm1", fixed_ip_address |-> "l2", router_id |-> "r1"]}

\* The dictionary the plugin hands to the client to associate fip with row.
AssociateFip(id, row) ==
    [fip_port_id |-> <<"fip", id>>, fip_net_id |-> "ext1",
     logical_ip |-> row.fixed_ip_address, external_ip |-> id]

\* The dictionary the plugin hands to the client to dissociate fip from row.
DissociateFip(id, row) ==
    [logical_ip |-> row.fixed_ip_address, external_ip |-> id]

l3_create_floatingip(db, cl, id, row, commit) ==
    LET made == [cl EXCEPT !.fips[id] = row]
    IN IF row.router_id # None
       THEN L3Result(create_floatingip(db, AssociateFip(id, row), row.router_id, commit), made)
       ELSE L3Result(Skip(db), made)

l3_delete_floatingip(db, cl, id, commit) ==
    LET original_fip == cl.fips[id]
        deleted == [cl EXCEPT !.fips[id] = NoneRec]
    IN IF original_fip.router_id # None /\ original_fip.fixed_ip_address # None
       THEN L3Result(delete_floatingip(db, DissociateFip(id, original_fip),
                                       original_fip.router_id, commit), deleted)
       ELSE L3Result(Skip(db), deleted)

\* commits: [dis, assoc]
l3_update_floatingip(db, cl, id, row, commits) ==
    LET previous_fip == cl.fips[id]
        updated == [cl EXCEPT !.fips[id] = row]
    IN Bind(IF /\ previous_fip.port_id # None
               /\ \/ previous_fip.port_id # row.port_id
                  \/ previous_fip.fixed_ip_address # row.fixed_ip_address
            THEN update_floatingip(db, DissociateFip(id, previous_fip),
                                   previous_fip.router_id, FALSE, commits.dis)
            ELSE Skip(db),
        LAMBDA dis :
          L3Result(Then(dis, IF row.port_id # None
                             THEN update_floatingip(dis.db, AssociateFip(id, row),
                                                    row.router_id, TRUE, commits.assoc)
                             ELSE Skip(dis.db)),
                   updated))

\* The loop of disassociate_floatingips over the floating IPs ids of the
\* port: an exception of the client is logged and the loop goes on.
RECURSIVE DisassociateEach(_, _, _, _)
DisassociateEach(db, cl, ids, commits) ==
    IF ids = <<>> THEN Skip(db)
    ELSE LET fip == cl.fips[Head(ids)]
         IN Bind(IF fip.router_id # None /\ fip.fixed_ip_address # None
                 THEN disassociate_floatingip(db, DissociateFip(Head(ids), fip),
                                              fip.router_id, commits[Head(ids)])
                 ELSE Skip(db),
             LAMBDA one :
               Bind(DisassociateEach(one.db, cl, Tail(ids), commits),
             LAMBDA rest :
               [db |-> rest.db, raised |-> FALSE, txns |-> one.txns \o rest.txns]))

\* commits: floating IP -> whether its transaction may commit
l3_disassociate_floatingips(db, cl, port_id, commits) ==
    LET fips == SelectSeq(FloatingIps,
                          LAMBDA id : cl.fips[id] # NoneRec /\ cl.fips[id].port_id = port_id)
        cleared == [cl EXCEPT !.fips = [id \in DOMAIN @ |->
                        IF @[id] # NoneRec /\ @[id].port_id = port_id
                        THEN Unassociated ELSE @[id]]]
    IN L3Result(DisassociateEach(db, cl, fips, commits), cleared)

\* The loop of _subnet_update over the routers, one transaction each.
RECURSIVE SubnetUpdateEach(_, _, _, _)
SubnetUpdateEach(db, router_ids, add, remove) ==
    IF router_ids = {} THEN Skip(db)
    ELSE LET router_id == CHOOSE r \in router_ids : TRUE
         IN Bind(_update_lrouter_routes(db, router_id, add, remove, TRUE),
                 LAMBDA first : Then(first, SubnetUpdateEach(first.db, router_ids \ {router_id},
                                                             add, remove)))

\* _subnet_update, the receiver of a subnet's AFTER_UPDATE event.
\*   orig, current: [id, network_id, gateway_ip], the subnet before and after;
\*   cl holds the subnet as it is after.
_subnet_update(db, cl, orig, current) ==
    LET orig_gw_ip == orig.gateway_ip
        current_gw_ip == current.gateway_ip
        router_ids == {r \in Routers :
                          IF cl.routers[r] = NoneRec THEN FALSE
                          ELSE IF cl.routers[r].gw = NoneRec THEN FALSE
                          ELSE /\ cl.routers[r].gw.network_id = orig.network_id
                               /\ \E i \in 1..Len(cl.routers[r].gw.external_fixed_ips) :
                                      cl.routers[r].gw.external_fixed_ips[i].subnet_id = orig.id}
        remove == IF orig_gw_ip # None
                  THEN <<[destination |-> "0.0.0.0/0", nexthop |-> orig_gw_ip]>> ELSE <<>>
        add == IF current_gw_ip # None
               THEN <<[destination |-> "0.0.0.0/0", nexthop |-> current_gw_ip]>> ELSE <<>>
    IN IF orig_gw_ip = current_gw_ip THEN L3Result(Skip(db), cl)
       ELSE L3Result(SubnetUpdateEach(db, router_ids, add, remove), cl)

(***************************************************************************)
(* l3_ovn.py: the scheduling of gateway ports onto chassis.                *)
(***************************************************************************)
\* The external networks as Neutron holds them: ext1 is a flat network on
\* physnet1, ext2 a tunnelled one.
ExternalNetworks ==
    [ext1 |-> [network_type |-> "flat", physical_network |-> "physnet1"],
     ext2 |-> [network_type |-> "geneve", physical_network |-> None]]

\* The id of every gateway port -> the physical network of its network,
\* None for a network that is not flat or VLAN.
_get_gateway_port_physnet_mapping(cl) ==
    LET net_physnet_dict ==
            [net \in {n \in DOMAIN ExternalNetworks :
                         ExternalNetworks[n].network_type \in {"flat", "vlan"}} |->
                ExternalNetworks[net].physical_network]
        with_gw == {r \in Routers : cl.routers[r] # NoneRec /\ cl.routers[r].gw # NoneRec}
    IN [port_id \in {get_router(cl, r).gw_port_id : r \in with_gw} |->
           IF port_id[2] \in DOMAIN net_physnet_dict THEN net_physnet_dict[port_id[2]]
           ELSE None]

\* A chassis a gateway port of that physical network can be on.
ValidChassis(chassis_physnets, chassis, physnet) ==
    /\ chassis \in DOMAIN chassis_physnets
    /\ physnet # None => physnet \in chassis_physnets[chassis]

\* nb_idl.get_unhosted_gateways: the names of the gateway ports without a
\* binding to a chassis they can be on, in the order of their routers.
get_unhosted_gateways(db, port_physnet_dict, chassis_physnets) ==
    LET of(router_id) == {port_id \in DOMAIN port_physnet_dict : port_id[1] = router_id}
        with_gw == SelectSeq(RouterOrder, LAMBDA router_id : of(router_id) # {})
        names == [i \in 1..Len(with_gw) |->
                     ovn_lrouter_port_name(CHOOSE port_id \in of(with_gw[i]) : TRUE)]
    IN SelectSeq(names, LAMBDA name :
           /\ name \in DOMAIN db.lrps
           /\ ~ValidChassis(chassis_physnets, db.lrps[name].gateway_chassis,
                            port_physnet_dict[name[2]]))

\* schedule_unhosted_gateways that gives the policy no candidates, as
\* create_router_port does.
ScheduleWithoutCandidates(db, cl, commit) ==
    LET port_physnet_dict == _get_gateway_port_physnet_mapping(cl)
        chassis_physnets == cl.chassis
        unhosted_gateways == get_unhosted_gateways(db, port_physnet_dict, chassis_physnets)
    IN L3Result(transaction(db,
                    [i \in 1..Len(unhosted_gateways) |->
                        [cmd |-> "update_lrouter_port", name |-> unhosted_gateways[i],
                         gateway_chassis |->
                             select(db, chassis_physnets, unhosted_gateways[i], {})]],
                    commit),
                cl)

schedule_unhosted_gateways(db, cl, commit) ==
    LET port_physnet_dict == _get_gateway_port_physnet_mapping(cl)
        chassis_physnets == cl.chassis
        unhosted_gateways == get_unhosted_gateways(db, port_physnet_dict, chassis_physnets)
        physnet(g_name) == port_physnet_dict[g_name[2]]
        candidates(g_name) ==
            {chassis \in DOMAIN chassis_physnets :
                physnet(g_name) # None /\ physnet(g_name) \in chassis_physnets[chassis]}
    IN L3Result(transaction(db,
                    [i \in 1..Len(unhosted_gateways) |->
                        [cmd |-> "update_lrouter_port", name |-> unhosted_gateways[i],
                         gateway_chassis |->
                             select(db, chassis_physnets, unhosted_gateways[i],
                                    candidates(unhosted_gateways[i]))]],
                    commit),
                cl)

(***************************************************************************)
(* ovn_client.py, utils.py: the attributes of a logical switch port.       *)
(*   port: [id, network_id, device_owner, mac_address, fixed_ips,          *)
(*          extra_dhcp_opts, security_groups, port_security_enabled,       *)
(*          allowed_address_pairs]                                         *)
(*   fixed_ips: a list of [subnet_id, ip_address]                          *)
(*   extra_dhcp_opts: a list of [ip_version, opt_name, opt_value]          *)
(***************************************************************************)
V6Addresses == {"fd::1", "fd::2"}

\* netaddr.IPAddress(ip_address).version
IpVersion(ip_address) == IF ip_address \in V6Addresses THEN 6 ELSE 4

\* constants.SUPPORTED_DHCP_OPTS
SupportedDhcpOpts(ip_version) ==
    IF ip_version = 4 THEN {"mtu", "lease-time", "dns-server"} ELSE {"dns-server"}

\* opt_name.replace('-', '_')
Underscored(opt_name) ==
    CASE opt_name = "lease-time" -> "lease_time"
      [] opt_name = "dns-server" -> "dns_server"
      [] OTHER -> opt_name

\* device_owner.startswith(const.DEVICE_OWNER_PREFIXES)
is_network_device_port(port) ==
    port.device_owner \in {"network:dhcp", "network:router_interface",
                           "network:router_gateway", "neutron:LOADBALANCER"}

\* The loop of get_lsp_dhcp_opts over the port's extra DHCP options.
RECURSIVE LspDhcpOptsLoop(_, _, _)
LspDhcpOptsLoop(edos, ip_version, lsp_dhcp_opts) ==
    IF edos = <<>> THEN [disabled |-> FALSE, opts |-> lsp_dhcp_opts]
    ELSE LET edo == Head(edos)
         IN IF edo.ip_version # ip_version
            THEN LspDhcpOptsLoop(Tail(edos), ip_version, lsp_dhcp_opts)
            ELSE IF edo.opt_name = "dhcp_disabled" /\ edo.opt_value \in {"True", "true"}
            THEN [disabled |-> TRUE, opts |-> <<>>]
            ELSE IF edo.opt_name \notin SupportedDhcpOpts(ip_version)
            THEN LspDhcpOptsLoop(Tail(edos), ip_version, lsp_dhcp_opts)
            ELSE LspDhcpOptsLoop(Tail(edos), ip_version,
                     (Underscored(edo.opt_name) :> edo.opt_value) @@ lsp_dhcp_opts)

\* [disabled, opts]: (lsp_dhcp_disabled, lsp_dhcp_opts)
get_lsp_dhcp_opts(port, ip_version) ==
    IF is_network_device_port(port) THEN [disabled |-> TRUE, opts |-> <<>>]
    ELSE LspDhcpOptsLoop(port.extra_dhcp_opts, ip_version, <<>>)

\* n_utils.is_port_trusted(port) if port.get('device_owner') else False
is_lsp_trusted(port) ==
    port.device_owner \in {"network:dhcp", "network:router_interface",
                           "network:router_gateway"}

get_lsp_security_groups(port, skip_trusted_port) ==
    IF skip_trusted_port /\ is_lsp_trusted(port) THEN <<>> ELSE port.security_groups

ovn_addrset_name(sg_id, ip_version) == <<"as_", ip_version, sg_id>>

\* The rows of a set of DHCP_Options rows, by uuid.
RECURSIVE RowsByUuid(_)
RowsByUuid(rows) ==
    IF rows = {} THEN <<>>
    ELSE LET first == CHOOSE r \in rows : \A q \in rows : r.uuid <= q.uuid
         IN <<first>> \o RowsByUuid(rows \ {first})

\* nb_idl.get_subnets_dhcp_options: the rows of the subnets themselves.
get_subnets_dhcp_options(db, subnets) ==
    RowsByUuid({row \in db.dhcp : /\ row.external_ids.subnet_id \in Range(subnets)
                                  /\ row.external_ids.port_id = None})

\* A selection that takes the first row whatever it is.
SubnetDhcpOptionsFirstRow(db, port, ip_version) ==
    LET mine == SelectSeq(port.fixed_ips,
                          LAMBDA fixed_ip : IpVersion(fixed_ip.ip_address) = ip_version)
        subnets == [i \in 1..Len(mine) |-> mine[i].subnet_id]
        get_opts == get_subnets_dhcp_options(db, subnets)
    IN IF get_opts = <<>> THEN NoneRec ELSE get_opts[1]

\* The subnet's row for the port, or None.
_get_subnet_dhcp_options_for_port(db, port, ip_version) ==
    LET mine == SelectSeq(port.fixed_ips,
                          LAMBDA fixed_ip : IpVersion(fixed_ip.ip_address) = ip_version)
        subnets == [i \in 1..Len(mine) |-> mine[i].subnet_id]
        get_opts == get_subnets_dhcp_options(db, subnets)
        stateful == {i \in 1..Len(get_opts) :
                        ~(/\ "dhcpv6_stateless" \in DOMAIN get_opts[i].options
                          /\ get_opts[i].options["dhcpv6_stateless"] = "true")}
    IN IF get_opts = <<>> THEN NoneRec
       ELSE IF ip_version = 6 /\ stateful # {} THEN get_opts[Min(stateful)]
       ELSE get_opts[1]

\* A variant that never adds a row for the port.
PortDhcpOptionsOfSubnet(db, port, ip_version) ==
    IF get_lsp_dhcp_opts(port, ip_version).disabled THEN NoneRec
    ELSE _get_subnet_dhcp_options_for_port(db, port, ip_version)

\* None, the subnet's row as read, or [cmd]: the command that adds a row
\* for the port.
_get_port_dhcp_options(db, port, ip_version) ==
    LET lsp == get_lsp_dhcp_opts(port, ip_version)
        subnet_dhcp_options == _get_subnet_dhcp_options_for_port(db, port, ip_version)
    IN IF lsp.disabled THEN NoneRec
       ELSE IF subnet_dhcp_options = NoneRec THEN NoneRec
       ELSE IF DOMAIN lsp.opts = {} THEN subnet_dhcp_options
       ELSE [cmd |->
               [cmd |-> "add_dhcp_options",
                subnet_id |-> subnet_dhcp_options.external_ids.subnet_id,
                port_id |-> port.id,
                cidr |-> subnet_dhcp_options.cidr,
                options |-> lsp.opts @@ subnet_dhcp_options.options,
                external_ids |-> [subnet_dhcp_options.external_ids
                                     EXCEPT !.port_id = port.id]]]

\* A computation that gives every allowed address pair an entry of its own.
AllowedAddressesUnfolded(port) ==
    IF ~port.port_security_enabled \/ is_lsp_trusted(port) THEN {}
    ELSE LET pairs == port.allowed_address_pairs
             addresses == <<port.mac_address>>
                          \o [i \in 1..Len(port.fixed_ips) |-> port.fixed_ips[i].ip_address]
         IN {<<pairs[i].mac_address, pairs[i].ip_address>> : i \in 1..Len(pairs)}
            \cup {addresses}

\* The entries of the port_security column: the port's MAC with its own
\* addresses, and one entry for each allowed address pair of another MAC.
_get_allowed_addresses_from_port(port) ==
    IF ~port.port_security_enabled \/ is_lsp_trusted(port) THEN {}
    ELSE LET pairs == port.allowed_address_pairs
             same == SelectSeq(pairs, LAMBDA a : a.mac_address = port.mac_address)
             addresses == <<port.mac_address>>
                          \o [i \in 1..Len(port.fixed_ips) |-> port.fixed_ips[i].ip_address]
                          \o [i \in 1..Len(same) |-> same[i].ip_address]
         IN {<<pairs[i].mac_address, pairs[i].ip_address>> :
                 i \in {j \in 1..Len(pairs) : pairs[j].mac_address # port.mac_address}}
            \cup {addresses}

\* constants.OVN_PORT_BINDING_PROFILE_PARAMS: the parameter sets a binding
\* profile may hold, each key with the type its value must have.
OVN_PORT_BINDING_PROFILE_PARAMS ==
    <<("parent_name" :> "str") @@ ("tag" :> "int"),
      ("vtep-physical-switch" :> "str") @@ ("vtep-logical-switch" :> "str")>>

\* A value of a binding profile: its Python type, and the value as a string
\* or as an integer.
ProfileValue(type, str, int) == [type |-> type, str |-> str, int |-> int]

\* port['binding:profile'], with no key when the port has none or it is
\* not set.
BindingProfile(port) ==
    IF "binding_profile" \in DOMAIN port THEN port.binding_profile ELSE <<>>

\* The loop over the parameter sets: the first set of which the profile
\* holds a key must be held whole, and the profile must hold nothing else.
RECURSIVE MatchParamSet(_, _)
MatchParamSet(profile, param_sets) ==
    IF param_sets = <<>> THEN [raised |-> FALSE, param_set |-> <<>>]
    ELSE LET param_keys == DOMAIN Head(param_sets)
             param_dict == param_keys \cap DOMAIN profile
         IN IF param_dict = {} THEN MatchParamSet(profile, Tail(param_sets))
            ELSE IF Cardinality(param_dict) # Cardinality(param_keys)
            THEN [raised |-> TRUE, param_set |-> <<>>]
            ELSE IF Cardinality(DOMAIN profile) # Cardinality(param_keys)
            THEN [raised |-> TRUE, param_set |-> <<>>]
            ELSE [raised |-> FALSE, param_set |-> Head(param_sets)]

\* A validation that lets any tag through.
ValidateWithoutTagRange(port) ==
    LET profile == BindingProfile(port)
        matched == MatchParamSet(profile, OVN_PORT_BINDING_PROFILE_PARAMS)
        param_set == matched.param_set
    IN IF DOMAIN profile = {} THEN [raised |-> FALSE, data |-> <<>>]
       ELSE IF matched.raised THEN [raised |-> TRUE, data |-> <<>>]
       ELSE IF DOMAIN param_set = {} THEN [raised |-> FALSE, data |-> <<>>]
       ELSE IF \E param_key \in DOMAIN param_set :
                   profile[param_key].type # param_set[param_key]
       THEN [raised |-> TRUE, data |-> <<>>]
       ELSE IF /\ "parent_name" \in DOMAIN param_set
               /\ \/ profile["parent_name"].str \notin DOMAIN cloud.ports
                  \/ cloud.ports[profile["parent_name"].str] = NoneRec
       THEN [raised |-> TRUE, data |-> <<>>]
       ELSE [raised |-> FALSE, data |-> [k \in DOMAIN param_set |-> profile[k]]]

\* [raised, data]: InvalidInput (or the port lookup's PortNotFound), or the
\* parameters of the profile.
validate_and_get_data_from_binding_profile(port) ==
    LET profile == BindingProfile(port)
        matched == MatchParamSet(profile, OVN_PORT_BINDING_PROFILE_PARAMS)
        param_set == matched.param_set
    IN IF DOMAIN profile = {} THEN [raised |-> FALSE, data |-> <<>>]
       ELSE IF matched.raised THEN [raised |-> TRUE, data |-> <<>>]
       ELSE IF DOMAIN param_set = {} THEN [raised |-> FALSE, data |-> <<>>]
       ELSE IF \E param_key \in DOMAIN param_set :
                   profile[param_key].type # param_set[param_key]
       THEN [raised |-> TRUE, data |-> <<>>]
       ELSE IF /\ "parent_name" \in DOMAIN param_set
               /\ \/ profile["parent_name"].str \notin DOMAIN cloud.ports
                  \/ cloud.ports[profile["parent_name"].str] = NoneRec
       THEN [raised |-> TRUE, data |-> <<>>]
       ELSE IF /\ "tag" \in DOMAIN param_set
               /\ (profile["tag"].int < 0 \/ profile["tag"].int > 4095)
       THEN [raised |-> TRUE, data |-> <<>>]
       ELSE [raised |-> FALSE, data |-> [k \in DOMAIN param_set |-> profile[k]]]

\* OvnPortInfo, for a port that has no QoS policy and whose binding profile
\* is valid: options is the set of its <<key, value>> pairs, parent_name
\* and tag are <<>> for [].
_get_port_options(db, port) ==
    LET binding_prof == validate_and_get_data_from_binding_profile(port).data
        vtep == "vtep-physical-switch" \in DOMAIN binding_prof
    IN [type |-> IF vtep THEN "vtep"
                 ELSE IF port.device_owner = "network:dhcp" THEN "localport" ELSE "",
        tag |-> IF ~vtep /\ "tag" \in DOMAIN binding_prof
                THEN <<binding_prof["tag"].int>> ELSE <<>>,
        parent_name |-> IF ~vtep /\ "parent_name" \in DOMAIN binding_prof
                        THEN <<binding_prof["parent_name"].str>> ELSE <<>>,
        options |-> IF vtep
                    THEN {<<k, binding_prof[k].str>> :
                             k \in {"vtep-physical-switch", "vtep-logical-switch"}}
                    ELSE {},
        addresses |-> IF vtep THEN <<<<"unknown">>>>
                      ELSE <<<<port.mac_address>>
                             \o [i \in 1..Len(port.fixed_ips) |->
                                    port.fixed_ips[i].ip_address]>>,
        port_security |-> IF vtep THEN {} ELSE _get_allowed_addresses_from_port(port),
        dhcpv4_options |-> _get_port_dhcp_options(db, port, 4),
        dhcpv6_options |-> _get_port_dhcp_options(db, port, 6),
        cidrs |-> IF vtep THEN <<>>
                  ELSE [i \in 1..Len(port.fixed_ips) |->
                           <<port.fixed_ips[i].ip_address,
                             PrefixLen(port.fixed_ips[i].subnet_id)>>]]

(***************************************************************************)
(* ovn_client.py: create_port, update_port, delete_port.  Each reads the   *)
(* database for the port's attributes and then opens its one transaction;  *)
(* the second half takes the attributes as read.                           *)
(***************************************************************************)
\* ovn_acl.acl_port_ips: the port's addresses and those of its allowed
\* address pairs, by IP version.
acl_port_ips(port) ==
    LET ips == {port.fixed_ips[i].ip_address : i \in 1..Len(port.fixed_ips)}
               \cup {port.allowed_address_pairs[i].ip_address :
                        i \in 1..Len(port.allowed_address_pairs)}
    IN [ip4 |-> {a \in ips : IpVersion(a) = 4}, ip6 |-> {a \in ips : IpVersion(a) = 6}]

IpVersions == <<"ip4", "ip6">>

\* The security groups of S, in the order the loops take them.
SecurityGroups == <<"sg1", "sg2">>

InOrder(S) == SelectSeq(SecurityGroups, LAMBDA sg_id : sg_id \in S)

\* What txn.add leaves in the transaction for a DHCP options value.
DhcpCommand(dhcp_options) ==
    IF dhcp_options # NoneRec /\ "cmd" \in DOMAIN dhcp_options
    THEN <<dhcp_options.cmd>> ELSE <<>>

\* The value handed to the port's DHCP options column.
DhcpReference(dhcp_options) ==
    IF dhcp_options = NoneRec THEN <<>>
    ELSE IF "cmd" \in DOMAIN dhcp_options
    THEN <<[subnet_id |-> dhcp_options.cmd.subnet_id, port_id |-> dhcp_options.cmd.port_id]>>
    ELSE <<[uuid |-> dhcp_options.uuid]>>

\* A loop over the groups that stops after the first of them.
AddressSetCommandsOfFirstGroup(sg_ids, addrs_add, addrs_remove, if_exists) ==
    IF sg_ids = <<>> THEN <<>>
    ELSE LET versions == SelectSeq(IpVersions,
                             LAMBDA v : addrs_add[v] # {} \/ addrs_remove[v] # {})
         IN [i \in 1..Len(versions) |->
                [cmd |-> "update_address_set",
                 name |-> ovn_addrset_name(Head(sg_ids), versions[i]),
                 addrs_add |-> addrs_add[versions[i]],
                 addrs_remove |-> addrs_remove[versions[i]],
                 if_exists |-> if_exists]]

\* update_address_set for each of the groups and each IP version with an
\* address to add or to remove.
RECURSIVE AddressSetCommands(_, _, _, _)
AddressSetCommands(sg_ids, addrs_add, addrs_remove, if_exists) ==
    IF sg_ids = <<>> THEN <<>>
    ELSE LET versions == SelectSeq(IpVersions,
                             LAMBDA v : addrs_add[v] # {} \/ addrs_remove[v] # {})
         IN [i \in 1..Len(versions) |->
                [cmd |-> "update_address_set",
                 name |-> ovn_addrset_name(Head(sg_ids), versions[i]),
                 addrs_add |-> addrs_add[versions[i]],
                 addrs_remove |-> addrs_remove[versions[i]],
                 if_exists |-> if_exists]]
            \o AddressSetCommands(Tail(sg_ids), addrs_add, addrs_remove, if_exists)

NoAddresses == [ip4 |-> {}, ip6 |-> {}]

\* ovn_acl.add_acls: the ACLs of the port, not modelled beyond the groups
\* they come from.
add_acls(port) ==
    LET sg_ids == get_lsp_security_groups(port, TRUE)
    IN [i \in 1..Len(sg_ids) |->
           [cmd |-> "add_acl", lport |-> port.id, security_group |-> sg_ids[i]]]

\* commit: whether the environment lets the transaction commit;
\* stale_kept: what the database does with the uuid of a row that is gone.
\* create_port that takes the groups of a trusted port as it takes them of
\* any other.
CreatePortTransactionOfListedGroups(db, port, port_info, commit, stale_kept) ==
    LET sg_ids == port.security_groups
    IN transaction(db,
           DhcpCommand(port_info.dhcpv4_options)
           \o DhcpCommand(port_info.dhcpv6_options)
           \o <<[cmd |-> "create_lswitch_port", lport_name |-> port.id,
                 lswitch_name |-> ovn_name(port.network_id),
                 addresses |-> port_info.addresses,
                 type |-> port_info.type, tag |-> port_info.tag,
                 options |-> port_info.options,
                 port_security |-> port_info.port_security,
                 dhcpv4_options |-> DhcpReference(port_info.dhcpv4_options),
                 dhcpv6_options |-> DhcpReference(port_info.dhcpv6_options),
                 stale_kept |-> stale_kept]>>
           \o add_acls(port)
           \o (IF port.fixed_ips # <<>> /\ sg_ids # <<>>
               THEN AddressSetCommands(sg_ids, acl_port_ips(port), NoAddresses, FALSE)
               ELSE <<>>),
           commit)

\* create_port that writes the address sets in a transaction of their own,
\* after the one of the port.
CreatePortTransactionInTwo(db, port, port_info, commit, stale_kept) ==
    LET sg_ids == get_lsp_security_groups(port, TRUE)
    IN Bind(transaction(db,
                DhcpCommand(port_info.dhcpv4_options)
                \o DhcpCommand(port_info.dhcpv6_options)
                \o <<[cmd |-> "create_lswitch_port", lport_name |-> port.id,
                      lswitch_name |-> ovn_name(port.network_id),
                      addresses |-> port_info.addresses,
                      type |-> port_info.type, tag |-> port_info.tag,
                      options |-> port_info.options,
                      port_security |-> port_info.port_security,
                      dhcpv4_options |-> DhcpReference(port_info.dhcpv4_options),
                      dhcpv6_options |-> DhcpReference(port_info.dhcpv6_options),
                      stale_kept |-> stale_kept]>>
                \o add_acls(port),
                commit),
            LAMBDA made :
              Then(made,
                   transaction(made.db,
                       IF port.fixed_ips # <<>> /\ sg_ids # <<>>
                       THEN AddressSetCommands(sg_ids, acl_port_ips(port), NoAddresses,
                                               FALSE)
                       ELSE <<>>,
                       commit)))

CreatePortTransaction(db, port, port_info, commit, stale_kept) ==
    LET sg_ids == get_lsp_security_groups(port, TRUE)
    IN transaction(db,
           DhcpCommand(port_info.dhcpv4_options)
           \o DhcpCommand(port_info.dhcpv6_options)
           \o <<[cmd |-> "create_lswitch_port", lport_name |-> port.id,
                 lswitch_name |-> ovn_name(port.network_id),
                 addresses |-> port_info.addresses,
                 type |-> port_info.type, tag |-> port_info.tag,
                 options |-> port_info.options,
                 port_security |-> port_info.port_security,
                 dhcpv4_options |-> DhcpReference(port_info.dhcpv4_options),
                 dhcpv6_options |-> DhcpReference(port_info.dhcpv6_options),
                 stale_kept |-> stale_kept]>>
           \o add_acls(port)
           \o (IF port.fixed_ips # <<>> /\ sg_ids # <<>>
               THEN AddressSetCommands(sg_ids, acl_port_ips(port), NoAddresses, FALSE)
               ELSE <<>>),
           commit)

\* The most tries nb_idl.check_for_row_by_value_and_retry makes.
MaxAttempts == 3

\* A check that gives up at the first try that does not find the row.
CheckForRowOnce(db, lswitch_name, attempts) ==
    IF SwitchVisible(db, lswitch_name) THEN "found" ELSE "raise"

\* One try of nb_idl.check_for_row_by_value_and_retry after attempts tries
\* that did not find the row: the row is found, or it is looked for again
\* after a wait, or RowNotFound leaves the call.
CheckForRow(db, lswitch_name, attempts) ==
    IF SwitchVisible(db, lswitch_name) THEN "found"
    ELSE IF attempts + 1 < MaxAttempts THEN "retry"
    ELSE "raise"

\* The whole call when this process's copy of the database does not change
\* while it waits: every try sees what the first one saw.
RECURSIVE check_for_row_by_value_and_retry(_, _, _)
check_for_row_by_value_and_retry(db, lswitch_name, attempts) ==
    Bind(CheckForRow(db, lswitch_name, attempts), LAMBDA found :
        IF found = "found" THEN Skip(db)
        ELSE IF found = "raise" THEN Raise(db)
        ELSE check_for_row_by_value_and_retry(db, lswitch_name, attempts + 1))

\* create_port from the check of the logical switch on, with the
\* attributes as read.
CreatePortChecked(db, port, port_info, commit, stale_kept) ==
    Then(check_for_row_by_value_and_retry(db, ovn_name(port.network_id), 0),
         CreatePortTransaction(db, port, port_info, commit, stale_kept))

create_port(db, port, commit, stale_kept) ==
    IF validate_and_get_data_from_binding_profile(port).raised THEN Raise(db)
    ELSE CreatePortChecked(db, port, _get_port_options(db, port), commit, stale_kept)

UpdatePortTransaction(db, port, original_port, port_info, commit, stale_kept) ==
    LET router_port == port.device_owner \in {"network:router_interface",
                                              "network:router_gateway"}
        columns == [cmd |-> "set_lswitch_port", lport_name |-> port.id,
                    tag |-> port_info.tag, options |-> port_info.options,
                    port_security |-> port_info.port_security,
                    dhcpv4_options |-> DhcpReference(port_info.dhcpv4_options),
                    dhcpv6_options |-> DhcpReference(port_info.dhcpv6_options),
                    if_exists |-> FALSE, stale_kept |-> stale_kept]
        old_sg_ids == Range(get_lsp_security_groups(original_port, TRUE))
        new_sg_ids == Range(get_lsp_security_groups(port, TRUE))
        detached_sg_ids == old_sg_ids \ new_sg_ids
        attached_sg_ids == new_sg_ids \ old_sg_ids
        is_fixed_ips_updated == original_port.fixed_ips # port.fixed_ips
        addresses == acl_port_ips(port)
        addresses_old == acl_port_ips(original_port)
    IN transaction(db,
           DhcpCommand(port_info.dhcpv4_options)
           \o DhcpCommand(port_info.dhcpv6_options)
           \o <<IF router_port THEN columns
                ELSE [type |-> port_info.type, addresses |-> port_info.addresses]
                     @@ columns>>
           \o (IF detached_sg_ids # {} \/ attached_sg_ids # {} \/ is_fixed_ips_updated
               THEN <<[cmd |-> "update_acls", lport |-> port.id, acls_new |-> add_acls(port)]>>
               ELSE <<>>)
           \o (IF port.fixed_ips = <<>> /\ original_port.fixed_ips = <<>> THEN <<>>
               ELSE AddressSetCommands(InOrder(attached_sg_ids), addresses, NoAddresses, TRUE)
                    \o AddressSetCommands(InOrder(detached_sg_ids), NoAddresses,
                                          addresses_old, TRUE)
                    \o (IF is_fixed_ips_updated
                        THEN AddressSetCommands(InOrder(new_sg_ids \cap old_sg_ids),
                                 [v \in Range(IpVersions) |-> addresses[v] \ addresses_old[v]],
                                 [v \in Range(IpVersions) |-> addresses_old[v] \ addresses[v]],
                                 TRUE)
                        ELSE <<>>)),
           commit)

update_port(db, port, original_port, commit, stale_kept) ==
    IF validate_and_get_data_from_binding_profile(port).raised THEN Raise(db)
    ELSE UpdatePortTransaction(db, port, original_port, _get_port_options(db, port),
                               commit, stale_kept)

\* delete_port with the exemption of trusted ports that create and update
\* apply.
DeletePortSkippingTrusted(db, port, commit) ==
    transaction(db,
        <<[cmd |-> "delete_lswitch_port", lport_name |-> port.id,
           lswitch |-> ovn_name(port.network_id)],
          [cmd |-> "delete_acl", lswitch |-> ovn_name(port.network_id), lport |-> port.id]>>
        \o (IF port.fixed_ips # <<>>
            THEN AddressSetCommands(get_lsp_security_groups(port, TRUE), NoAddresses,
                                    acl_port_ips(port), TRUE)
            ELSE <<>>),
        commit)

delete_port(db, port, commit) ==
    transaction(db,
        <<[cmd |-> "delete_lswitch_port", lport_name |-> port.id,
           lswitch |-> ovn_name(port.network_id)],
          [cmd |-> "delete_acl", lswitch |-> ovn_name(port.network_id), lport |-> port.id]>>
        \o (IF port.fixed_ips # <<>>
            THEN AddressSetCommands(get_lsp_security_groups(port, FALSE), NoAddresses,
                                    acl_port_ips(port), TRUE)
            ELSE <<>>),
        commit)

(***************************************************************************)
(* ovn_client.py: networks.                                                *)
(*   network: [id, name]; physnet: None or the physical network; segid:    *)
(*   None or the segmentation id as text                                   *)
(***************************************************************************)
\* int(segid) of the segmentation ids of the scenarios
int(segid) == IF segid = "100" THEN 100 ELSE IF segid = "200" THEN 200 ELSE 0

\* tag: <<>> for None, <<n>> for the number n
_create_provnet_port(network, physnet, tag) ==
    [cmd |-> "create_lswitch_port",
     lport_name |-> ovn_provnet_port_name(network.id),
     lswitch_name |-> ovn_name(network.id),
     addresses |-> <<"unknown">>,
     port_security |-> {}, dhcpv4_options |-> <<>>, dhcpv6_options |-> <<>>,
     stale_kept |-> TRUE,
     type |-> "localnet",
     tag |-> IF tag # <<>> /\ tag[1] # 0 THEN tag ELSE <<>>,
     options |-> {<<"network_name", physnet>>}]

\* The port for DHCP and metadata that Neutron makes on a network: it has
\* no address while the network has no subnet.
MetadataPort(network_id) ==
    [id |-> "dhcp-" \o network_id, network_id |-> network_id,
     device_owner |-> "network:dhcp", mac_address |-> "fa:16:3e:00:00:03",
     fixed_ips |-> <<>>, extra_dhcp_opts |-> <<>>, security_groups |-> <<>>,
     port_security_enabled |-> TRUE, allowed_address_pairs |-> <<>>]

\* create_network that takes a segmentation id for a physical binding.
CreateNetworkOfSegment(db, network, physnet, segid, metadata_enabled, commit) ==
    Bind(transaction(db,
             <<[cmd |-> "create_lswitch", lswitch_name |-> ovn_name(network.id),
                external_ids |-> ("neutron:network_name" :> network.name)]>>
             \o (IF segid # None
                 THEN <<_create_provnet_port(network, physnet,
                            IF segid # None THEN <<int(segid)>> ELSE <<>>)>>
                 ELSE <<>>),
             commit),
         LAMBDA made :
             IF made.raised \/ ~metadata_enabled THEN made
             ELSE Bind(create_port(made.db, MetadataPort(network.id), TRUE, TRUE),
                       LAMBDA r : [db |-> r.db, raised |-> r.raised,
                                   txns |-> made.txns \o r.txns]))

\* metadata_enabled: config.is_ovn_metadata_enabled(); Neutron's
\* create_port for the DHCP port ends in create_port above.
create_network(db, network, physnet, segid, metadata_enabled, commit) ==
    Bind(transaction(db,
             <<[cmd |-> "create_lswitch", lswitch_name |-> ovn_name(network.id),
                external_ids |-> ("neutron:network_name" :> network.name)]>>
             \o (IF physnet # None
                 THEN <<_create_provnet_port(network, physnet,
                            IF segid # None THEN <<int(segid)>> ELSE <<>>)>>
                 ELSE <<>>),
             commit),
         LAMBDA made :
             IF made.raised \/ ~metadata_enabled THEN made
             ELSE Bind(create_port(made.db, MetadataPort(network.id), TRUE, TRUE),
                       LAMBDA r : [db |-> r.db, raised |-> r.raised,
                                   txns |-> made.txns \o r.txns]))

delete_network(db, network_id, commit) ==
    transaction(db,
        <<[cmd |-> "delete_lswitch", lswitch_name |-> ovn_name(network_id),
           if_exists |-> TRUE]>>,
        commit)

\* Without a QoS driver.
update_network(db, network, original_network, commit) ==
    IF network.name # original_network.name
    THEN transaction(db,
             <<[cmd |-> "set_lswitch_ext_id", lswitch_name |-> ovn_name(network.id),
                ext_id |-> <<"neutron:network_name", network.name>>]>>,
             commit)
    ELSE Skip(db)

(***************************************************************************)
(* ovn_client.py: the DHCP options of subnets.                             *)
(*   subnet: [id, network_id, ip_version, cidr, gateway_ip, enable_dhcp,   *)
(*            dns_nameservers, host_routes, ipv6_address_mode]             *)
(*   network: [id, mtu]                                                    *)
(*   random_mac: what n_net.get_random_mac returns when it is asked        *)
(***************************************************************************)
\* A check that ignores no subnet.
DhcpOptionsNeverIgnored(subnet) == FALSE

is_dhcp_options_ignored(subnet) ==
    subnet.ip_version = 6 /\ subnet.ipv6_address_mode = "slaac"

\* '{%s}' % ', '.join(dns_nameservers)
JoinedDns(dns_nameservers) ==
    CASE dns_nameservers = <<"d1">> -> "{d1}"
      [] dns_nameservers = <<"d2">> -> "{d2}"
      [] dns_nameservers = <<"d1", "d2">> -> "{d1, d2}"
      [] dns_nameservers = <<"d2", "d1">> -> "{d2, d1}"
      [] OTHER -> "{}"

\* An option that lists the host routes before the metadata route.
ClasslessStaticRoutesHostFirst(subnet, metadata_port_ip) ==
    LET routes == [i \in 1..Len(subnet.host_routes) |->
                      <<subnet.host_routes[i].destination, subnet.host_routes[i].nexthop>>]
                  \o (IF metadata_port_ip # None
                      THEN <<<<"169.254.169.254/32", metadata_port_ip>>>> ELSE <<>>)
    IN IF routes = <<>> THEN <<>> ELSE routes \o <<<<"0.0.0.0/0", subnet.gateway_ip>>>>

\* The entries of the classless_static_route option, in order.
ClasslessStaticRoutes(subnet, metadata_port_ip) ==
    LET routes == (IF metadata_port_ip # None
                   THEN <<<<"169.254.169.254/32", metadata_port_ip>>>> ELSE <<>>)
                  \o [i \in 1..Len(subnet.host_routes) |->
                         <<subnet.host_routes[i].destination, subnet.host_routes[i].nexthop>>]
    IN IF routes = <<>> THEN <<>> ELSE routes \o <<<<"0.0.0.0/0", subnet.gateway_ip>>>>

_get_ovn_dhcpv4_opts(subnet, network, server_mac, metadata_port_ip, random_mac) ==
    IF subnet.gateway_ip = None THEN <<>>
    ELSE LET routes == ClasslessStaticRoutes(subnet, metadata_port_ip)
         IN (IF routes = <<>> THEN <<>> ELSE [classless_static_route |-> routes])
            @@ (IF subnet.dns_nameservers = <<>> THEN <<>>
                ELSE [dns_server |-> JoinedDns(subnet.dns_nameservers)])
            @@ [server_id |-> subnet.gateway_ip, lease_time |-> "43200",
                mtu |-> network.mtu, router |-> subnet.gateway_ip,
                server_mac |-> IF server_mac # None THEN server_mac ELSE random_mac]

_get_ovn_dhcpv6_opts(subnet, server_id, random_mac) ==
    (IF subnet.ipv6_address_mode = "dhcpv6-stateless"
     THEN [dhcpv6_stateless |-> "true"] ELSE <<>>)
    @@ (IF subnet.dns_nameservers = <<>> THEN <<>>
        ELSE [dns_server |-> JoinedDns(subnet.dns_nameservers)])
    @@ [server_id |-> IF server_id # None THEN server_id ELSE random_mac]

_get_ovn_dhcp_options(subnet, network, server_mac, metadata_port_ip, random_mac) ==
    [cidr |-> subnet.cidr,
     options |-> IF ~subnet.enable_dhcp THEN <<>>
                 ELSE IF subnet.ip_version = 4
                 THEN _get_ovn_dhcpv4_opts(subnet, network, server_mac, metadata_port_ip,
                                           random_mac)
                 ELSE _get_ovn_dhcpv6_opts(subnet, server_mac, random_mac),
     external_ids |-> [subnet_id |-> subnet.id, port_id |-> None]]

\* nb_idl.add_dhcp_options(subnet_id, port_id=port_id, **columns)
AddDhcpOptions(subnet_id, port_id, columns) ==
    [cmd |-> "add_dhcp_options", subnet_id |-> subnet_id, port_id |-> port_id,
     cidr |-> columns.cidr, options |-> columns.options,
     external_ids |-> columns.external_ids]

_add_subnet_dhcp_options(db, subnet, network, metadata_port_ip, random_mac, commit) ==
    IF is_dhcp_options_ignored(subnet) THEN Skip(db)
    ELSE transaction(db,
             <<AddDhcpOptions(subnet.id, None,
                   _get_ovn_dhcp_options(subnet, network, None, metadata_port_ip,
                                         random_mac))>>,
             commit)

\* nb_idl.get_subnet_and_ports_dhcp_options: the subnet's row and its ports' rows.
get_subnet_and_ports_dhcp_options(db, subnet_id) ==
    RowsByUuid({row \in db.dhcp : row.external_ids.subnet_id = subnet_id})

\* nb_idl.get_subnet_dhcp_options: the subnet's own row, or None.
get_subnet_dhcp_options(db, subnet_id) ==
    IF DhcpRows(db, subnet_id, None) = {} THEN NoneRec
    ELSE CHOOSE row \in DhcpRows(db, subnet_id, None) : TRUE

_remove_subnet_dhcp_options(db, subnet_id, commit) ==
    LET dhcp_options == get_subnet_and_ports_dhcp_options(db, subnet_id)
    IN transaction(db,
           [i \in 1..Len(dhcp_options) |->
               [cmd |-> "delete_dhcp_options", uuid |-> dhcp_options[i].uuid]],
           commit)

\* The commands of the second transaction of _enable_subnet_dhcp_options
\* for the ports; uuid is the result of the command that added the
\* subnet's row.
RECURSIVE EnablePortsCommands(_, _, _, _)
EnablePortsCommands(ports, subnet, subnet_dhcp_options, uuid) ==
    IF ports = <<>> THEN <<>>
    ELSE LET port == Head(ports)
             lsp == get_lsp_dhcp_opts(port, subnet.ip_version)
             column == IF subnet.ip_version = 6 THEN "dhcpv6_options" ELSE "dhcpv4_options"
             set(ref) == (column :> ref)
                         @@ [cmd |-> "set_lswitch_port", lport_name |-> port.id,
                             if_exists |-> TRUE, stale_kept |-> TRUE]
             rest == EnablePortsCommands(Tail(ports), subnet, subnet_dhcp_options, uuid)
         IN IF lsp.disabled THEN rest
            ELSE IF DOMAIN lsp.opts = {} THEN <<set(<<[uuid |-> uuid]>>)>> \o rest
            ELSE <<AddDhcpOptions(subnet.id, port.id,
                       [subnet_dhcp_options EXCEPT
                           !.options = lsp.opts @@ @,
                           !.external_ids = [@ EXCEPT !.port_id = port.id]]),
                   set(<<[subnet_id |-> subnet.id, port_id |-> port.id]>>)>> \o rest

\* all_ports: the Neutron ports with a fixed IP on the subnet;
\* commits: whether the first and the second transaction commit.
_enable_subnet_dhcp_options(db, all_ports, subnet, network, metadata_port_ip, random_mac, commits) ==
    IF is_dhcp_options_ignored(subnet) THEN Skip(db)
    ELSE LET ports == SelectSeq(all_ports, LAMBDA q : ~is_network_device_port(q))
             subnet_dhcp_options == _get_ovn_dhcp_options(subnet, network, None,
                                                          metadata_port_ip, random_mac)
         IN Bind(transaction(db, <<AddDhcpOptions(subnet.id, None, subnet_dhcp_options)>>,
                             commits[1]),
             LAMBDA first :
               IF first.raised THEN first
               ELSE Then(first,
                        transaction(first.db,
                            EnablePortsCommands(ports, subnet, subnet_dhcp_options,
                                get_subnet_dhcp_options(first.db, subnet.id).uuid),
                            commits[2])))

\* nb_idl.compose_dhcp_options_commands: the subnet's row is rewritten, and
\* each row of a port of the subnet is rewritten to the new options with
\* what the port had set on top of the old ones.
compose_dhcp_options_commands(db, subnet_id, new_options) ==
    LET original == get_subnet_dhcp_options(db, subnet_id)
        port_rows == RowsByUuid({row \in db.dhcp :
                                    /\ row.external_ids.subnet_id = subnet_id
                                    /\ row.external_ids.port_id # None})
        Own(row) == {k \in DOMAIN row.options :
                        \/ original = NoneRec
                        \/ k \notin DOMAIN original.options
                        \/ original.options[k] # row.options[k]}
    IN <<AddDhcpOptions(subnet_id, None, new_options)>>
       \o [i \in 1..Len(port_rows) |->
              AddDhcpOptions(subnet_id, port_rows[i].external_ids.port_id,
                  [cidr |-> new_options.cidr,
                   options |-> [k \in Own(port_rows[i]) |-> port_rows[i].options[k]]
                               @@ new_options.options,
                   external_ids |-> port_rows[i].external_ids])]

_update_subnet_dhcp_options(db, subnet, network, metadata_port_ip, random_mac, commit) ==
    IF is_dhcp_options_ignored(subnet) THEN Skip(db)
    ELSE LET original_options == get_subnet_dhcp_options(db, subnet.id)
             key == IF subnet.ip_version = 6 THEN "server_id" ELSE "server_mac"
             mac == IF original_options # NoneRec /\ key \in DOMAIN original_options.options
                    THEN original_options.options[key] ELSE None
             new_options == _get_ovn_dhcp_options(subnet, network, mac, metadata_port_ip,
                                                  random_mac)
         IN IF /\ original_options # NoneRec
               /\ original_options.cidr = new_options.cidr
               /\ original_options.options = new_options.options
            THEN Skip(db)
            ELSE transaction(db, compose_dhcp_options_commands(db, subnet.id, new_options),
                             commit)

\* The network of the subnets here has no metadata port: update_metadata_port
\* does nothing and _find_metadata_port_ip returns None.
create_subnet(db, subnet, network, random_mac, commit) ==
    IF subnet.enable_dhcp
    THEN _add_subnet_dhcp_options(db, subnet, network, None, random_mac, commit)
    ELSE Skip(db)

\* commits: whether the first and the second transaction commit
update_subnet(db, all_ports, subnet, original_subnet, network, random_mac, commits) ==
    IF ~subnet.enable_dhcp /\ ~original_subnet.enable_dhcp THEN Skip(db)
    ELSE IF ~original_subnet.enable_dhcp
    THEN _enable_subnet_dhcp_options(db, all_ports, subnet, network, None, random_mac,
                                     commits)
    ELSE IF ~subnet.enable_dhcp THEN _remove_subnet_dhcp_options(db, subnet.id, commits[1])
    ELSE _update_subnet_dhcp_options(db, subnet, network, None, random_mac, commits[1])

delete_subnet(db, subnet_id, commit) == _remove_subnet_dhcp_options(db, subnet_id, commit)

(***************************************************************************)
(* ovn_client.py: security groups and their address sets.                  *)
(***************************************************************************)
\* A loop that ends after the first IP version.
ProcessSecurityGroupIp4Only(db, security_group, func, commit) ==
    transaction(db,
        <<[cmd |-> func, name |-> ovn_addrset_name(security_group.id, IpVersions[1])]>>,
        commit)

\* The commands carry external_ids, the group's name, when the group is
\* given with its name and func takes them.
_process_security_group(db, security_group, func, commit) ==
    transaction(db,
        [i \in 1..Len(IpVersions) |->
            (IF "name" \in DOMAIN security_group /\ func # "delete_address_set"
             THEN [external_ids |-> [neutron_security_group_name |-> security_group.name]]
             ELSE <<>>)
            @@ [cmd |-> func, name |-> ovn_addrset_name(security_group.id, IpVersions[i])]],
        commit)

create_security_group(db, security_group, commit) ==
    _process_security_group(db, security_group, "create_address_set", commit)

delete_security_group(db, security_group, commit) ==
    _process_security_group(db, security_group, "delete_address_set", commit)

update_security_group(db, security_group, commit) ==
    _process_security_group(db, security_group, "update_address_set_ext_ids", commit)

(***************************************************************************)
(* The state machine.  Every action runs one operation to its end and      *)
(* records it in last.                                                     *)
(***************************************************************************)
PortIds == {"p1"}

\* The subnets ports are given addresses on.
PortSubnets == {"s1", "s6"}

\* cloud.ports: the Neutron ports; cloud.subnets: enable_dhcp and
\* dns_nameservers of the subnets that exist.
\* cloud.networks: [name, physnet, segid] of the networks that exist.
\* cloud.security_groups: [name] of the security groups that exist.
NetworkIds == {"netA", "netB"}

InitCloud ==
    [routers |-> [r \in Routers |-> NoneRec],
     fips |-> [id \in Range(FloatingIps) |-> NoneRec],
     ports |-> [p \in PortIds |-> NoneRec],
     subnets |-> [s \in PortSubnets |-> NoneRec],
     gateway_ips |-> [s \in ExternalSubnets |-> Subnets[s].gateway_ip],
     networks |-> [n \in NetworkIds |-> NoneRec],
     chassis |-> <<>>,
     security_groups |-> [g \in {"sg1", "sg2"} |-> NoneRec]]

Init ==
    /\ nb = EmptyNb
    /\ cloud = InitCloud
    /\ last = [op |-> "init", args |-> NoneRec, raised |-> FALSE, txns |-> <<>>,
               clean |-> [r \in Routers |-> FALSE]]
    /\ inflight = NoneRec

\* The state the port scenarios start in: network netA, a network with no
\* physical binding, has been created.
InitPorts ==
    /\ nb = create_network(EmptyNb, [id |-> "netA", name |-> "n1"], None, None,
                           FALSE, TRUE).db
    /\ cloud = [InitCloud EXCEPT !.networks["netA"] =
                    [name |-> "n1", physnet |-> None, segid |-> None]]
    /\ last = [op |-> "init", args |-> NoneRec, raised |-> FALSE, txns |-> <<>>,
               clean |-> [r \in Routers |-> FALSE]]
    /\ inflight = NoneRec

InterfaceOps == {"l3_add_router_interface", "l3_remove_router_interface"}

RouterOps == {"l3_create_router", "l3_update_router", "l3_delete_router"}

\* last.clean, a history of each router: it was created by a create_router
\* that returned, and since then it has only seen add_router_interface and
\* remove_router_interface calls, all of which returned.
CleanAfter(op, args, r) ==
    IF op \in InterfaceOps
    THEN [last.clean EXCEPT ![args.router_id] = @ /\ ~r.raised]
    ELSE IF op \in RouterOps
    THEN [last.clean EXCEPT ![args.router_id] = (op = "l3_create_router" /\ ~r.raised)]
    ELSE last.clean

\* The outcome r of operation op on arguments args becomes the next state;
\* a port operation that has read the database and not yet opened its
\* transaction stays as it is.
Done(op, args, r) ==
    \E x \in {r} :
        /\ nb' = x.db
        /\ cloud' = IF "cloud" \in DOMAIN x THEN x.cloud ELSE cloud
        /\ last' = [op |-> op, args |-> args, raised |-> x.raised, txns |-> x.txns,
                    clean |-> CleanAfter(op, args, x)]
        /\ inflight' = inflight

\* An outcome of the client together with what Neutron holds afterwards.
InCloud(r, cl) == [db |-> r.db, raised |-> r.raised, txns |-> r.txns, cloud |-> cl]

\* external_gateway_info of a gateway on the external network ext1 or ext2
ExtGw(subnets, enable_snat) ==
    [network_id |-> Subnets[subnets[1]].network_id,
     external_fixed_ips |-> [i \in 1..Len(subnets) |-> FixedIp(subnets[i])],
     enable_snat |-> enable_snat]

RoomForNat(db, router_id, n) ==
    ovn_name(router_id) \in DOMAIN db.lrouters
        => Len(NatOf(db, ovn_name(router_id))) + n <= MaxNat

(***************************************************************************)
(* Floating IPs: the client's entry points on any router and any pair of   *)
(* addresses, and the plugin's entry points on the Neutron floating IPs.   *)
(***************************************************************************)
LogicalIps == {"l1", "l2"}

\* The routers floating IPs are served by.
FipRouters == {"r1"}

ClientFips ==
    [fip_port_id : {<<"fip", "f1">>}, fip_net_id : {"ext1"},
     logical_ip : LogicalIps, external_ip : Range(FloatingIps)]

\* A router with a gateway on ext1 appears, or goes away.
FipRouterCreate ==
    \E router_id \in FipRouters :
        /\ cloud.routers[router_id] = NoneRec
        /\ Done("l3_create_router", [router_id |-> router_id],
                l3_create_router(nb, cloud, router_id,
                    [name |-> "a", admin_state_up |-> TRUE, gw |-> ExtGw(<<"e4">>, TRUE)],
                    [create |-> TRUE, add |-> <<TRUE, TRUE, TRUE>>]))

FipRouterDelete ==
    \E router_id \in FipRouters :
        /\ cloud.routers[router_id] # NoneRec
        /\ \A id \in DOMAIN cloud.fips :
               cloud.fips[id] # NoneRec => cloud.fips[id].router_id # router_id
        /\ Done("l3_delete_router", [router_id |-> router_id],
                l3_delete_router(nb, cloud, router_id, TRUE))

ClientCreateFloatingip ==
    \E floatingip \in ClientFips, router_id \in FipRouters, commit \in BOOLEAN :
        /\ RoomForNat(nb, router_id, 1)
        /\ Done("create_floatingip",
                [floatingip |-> floatingip, router_id |-> router_id, associate |-> TRUE],
                create_floatingip(nb, floatingip, router_id, commit))

ClientUpdateFloatingip ==
    \E floatingip \in ClientFips, router_id \in FipRouters, associate \in BOOLEAN,
       commit \in BOOLEAN :
        /\ associate => RoomForNat(nb, router_id, 1)
        /\ Done("update_floatingip",
                [floatingip |-> floatingip, router_id |-> router_id,
                 associate |-> associate],
                update_floatingip(nb, floatingip, router_id, associate, commit))

ClientDeleteFloatingip ==
    \E floatingip \in ClientFips, router_id \in FipRouters, commit \in BOOLEAN :
        Done("delete_floatingip",
             [floatingip |-> floatingip, router_id |-> router_id, associate |-> FALSE],
             delete_floatingip(nb, floatingip, router_id, commit))

ClientDisassociateFloatingip ==
    \E floatingip \in ClientFips, router_id \in FipRouters, commit \in BOOLEAN :
        Done("disassociate_floatingip",
             [floatingip |-> floatingip, router_id |-> router_id, associate |-> FALSE],
             disassociate_floatingip(nb, floatingip, router_id, commit))

\* Neutron associates a floating IP only through a router that has a gateway,
\* and a fixed IP with one floating IP only.
Associable(cl, id, row) ==
    row.router_id # None =>
        /\ cl.routers[row.router_id] # NoneRec
        /\ cl.routers[row.router_id].gw # NoneRec
        /\ \A other \in DOMAIN cl.fips \ {id} :
               cl.fips[other] # NoneRec =>
                   \/ cl.fips[other].port_id # row.port_id
                   \/ cl.fips[other].fixed_ip_address # row.fixed_ip_address

L3CreateFloatingip ==
    \E id \in Range(FloatingIps), row \in Targets \cup {Unassociated}, commit \in BOOLEAN :
        /\ cloud.fips[id] = NoneRec
        /\ Associable(cloud, id, row)
        /\ row.router_id # None => RoomForNat(nb, row.router_id, 1)
        /\ Done("l3_create_floatingip", [id |-> id, row |-> row],
                l3_create_floatingip(nb, cloud, id, row, commit))

L3UpdateFloatingip ==
    \E id \in Range(FloatingIps), row \in Targets \cup {Unassociated},
       dis \in BOOLEAN, assoc \in BOOLEAN :
        /\ cloud.fips[id] # NoneRec
        /\ Associable(cloud, id, row)
        /\ row.router_id # None => RoomForNat(nb, row.router_id, 1)
        /\ Done("l3_update_floatingip", [id |-> id, row |-> row],
                l3_update_floatingip(nb, cloud, id, row, [dis |-> dis, assoc |-> assoc]))

L3DeleteFloatingip ==
    \E id \in Range(FloatingIps), commit \in BOOLEAN :
        /\ cloud.fips[id] # NoneRec
        /\ Done("l3_delete_floatingip", [id |-> id],
                l3_delete_floatingip(nb, cloud, id, commit))

L3DisassociateFloatingips ==
    \E port_id \in {"vm1", "vm2"}, commits \in [Range(FloatingIps) -> BOOLEAN] :
        Done("l3_disassociate_floatingips", [port_id |-> port_id],
             l3_disassociate_floatingips(nb, cloud, port_id, commits))

NextFip ==
    \/ FipRouterCreate
    \/ FipRouterDelete
    \/ ClientCreateFloatingip
    \/ ClientUpdateFloatingip
    \/ ClientDeleteFloatingip
    \/ ClientDisassociateFloatingip
    \/ L3CreateFloatingip
    \/ L3UpdateFloatingip
    \/ L3DeleteFloatingip
    \/ L3DisassociateFloatingips

SpecFip == Init /\ [][NextFip]_vars

(***************************************************************************)
(* Properties of the floating-IP operations.                               *)
(***************************************************************************)
\* The rows of type dnat_and_snat with external IP e in a NAT table.
FipRules(rules, e) ==
    {i \in 1..Len(rules) : rules[i].type = "dnat_and_snat" /\ rules[i].external_ip = e}

ClientFipOps ==
    {"create_floatingip", "update_floatingip", "delete_floatingip",
     "disassociate_floatingip"}

\* The last operation was a client floating-IP operation that returned.
ClientFipReturned(associate) ==
    /\ last.op \in ClientFipOps
    /\ last.args.associate = associate
    /\ ~last.raised

\* C1: after any sequence of the client's floating-IP operations a router
\* holds at most one dnat_and_snat rule per external IP; an association
\* that finds a dnat_and_snat rule with its external IP rewrites that rule
\* (the table keeps its length, the rule has the new logical IP); after a
\* disassociation no dnat_and_snat rule with the given logical and external
\* IP is left.
C1_OneRulePerExternalIp ==
    [][LET lrouter == ovn_name(last'.args.router_id)
           fip == last'.args.floatingip
           now == NatOf(nb', lrouter)
       IN /\ \A lr \in DOMAIN nb'.lrouters : \A e \in Range(FloatingIps) :
                 Cardinality(FipRules(NatOf(nb', lr), e)) <= 1
          /\ ClientFipReturned(TRUE)' =>
                 /\ \A i \in FipRules(now, fip.external_ip) :
                        now[i].logical_ip = fip.logical_ip
                 /\ FipRules(NatOf(nb, lrouter), fip.external_ip) # {} =>
                        /\ Len(now) = Len(NatOf(nb, lrouter))
                        /\ Cardinality(FipRules(now, fip.external_ip)) = 1
          /\ ClientFipReturned(FALSE)' /\ lrouter \in DOMAIN nb'.lrouters =>
                 \A i \in FipRules(now, fip.external_ip) :
                     now[i].logical_ip # fip.logical_ip]_vars

\* An association has rewritten the rule of its external IP: its
\* transaction set the row, and the row has the logical IP given.
C1_Witness_RewrittenInPlace ==
    /\ ClientFipReturned(TRUE)
    /\ last.txns[1].cmds[2].cmd = "set_nat_rule_in_lrouter"
    /\ LET now == NatOf(nb, ovn_name(last.args.router_id))
       IN \E i \in FipRules(now, last.args.floatingip.external_ip) :
              /\ now[i].logical_ip = last.args.floatingip.logical_ip
              /\ now[i].uuid = last.txns[1].cmds[2].uuid

\* A NAT transaction of the last operation failed.
NatTransactionFailed == \E i \in 1..Len(last.txns) : ~last.txns[i].committed

\* C2: whenever the NAT transaction of an associate or disassociate fails,
\* the entry point that issued it raises: no entry point, of the client or
\* of the L3 plugin, returns normally after a failed NAT update.
C2_NatFailureReRaised == NatTransactionFailed => last.raised

(***************************************************************************)
(* Routers, their gateways and their interfaces, through the L3 plugin.    *)
(* The environment may refuse one transaction of an operation: fail is the *)
(* transaction refused, counted in the order the operation's commits are   *)
(* listed, and 0 when none is.  An operation ends at its first exception,  *)
(* so it sees at most one refusal.                                         *)
(***************************************************************************)
RouterGateways ==
    {NoneRec, ExtGw(<<"e4">>, TRUE), ExtGw(<<"e4">>, FALSE), ExtGw(<<"e6", "e4">>, TRUE)}

CreateCommits(fail) == [create |-> fail # 1, add |-> <<fail # 2, fail # 3, fail # 4>>]

UpdateCommits(fail) ==
    [del |-> fail # 1, add |-> <<fail # 2, fail # 3, fail # 4>>, nat |-> fail # 5,
     upd |-> fail # 6, routes |-> fail # 7]

InterfaceCommits(fail) == [port |-> fail # 1, nat |-> fail # 2]

NoDelta == [admin_state_up |-> <<>>, name |-> <<>>, routes |-> <<>>]

RoomForRoute(db, router_id) ==
    ovn_name(router_id) \in DOMAIN db.lrouters
        => Len(RoutesOf(db, ovn_name(router_id))) < MaxRoutes

FipsOf(cl, router_id) ==
    {id \in DOMAIN cl.fips : cl.fips[id] # NoneRec /\ cl.fips[id].router_id = router_id}

L3CreateRouter(router_id, gw, fail) ==
    /\ cloud.routers[router_id] = NoneRec
    /\ Done("l3_create_router", [router_id |-> router_id, gw |-> gw, fail |-> fail],
            l3_create_router(nb, cloud, router_id,
                [name |-> "a", admin_state_up |-> TRUE, gw |-> gw],
                CreateCommits(fail)))

\* Neutron keeps the gateway of a router that serves floating IPs.
L3UpdateRouter(router_id, gw, fail) ==
    /\ cloud.routers[router_id] # NoneRec
    /\ gw = NoneRec => FipsOf(cloud, router_id) = {}
    /\ gw # NoneRec =>
           /\ RoomForNat(nb, router_id,
                         Len(_get_v4_network_of_all_router_ports(cloud, router_id)))
           /\ RoomForRoute(nb, router_id)
    /\ Done("l3_update_router",
            [router_id |-> router_id, gw |-> gw,
             original_gw |-> cloud.routers[router_id].gw, fail |-> fail],
            l3_update_router(nb, cloud, router_id, [gw |-> gw, delta |-> NoDelta],
                             UpdateCommits(fail)))

\* Neutron deletes a router that has no interface and serves no floating IP.
L3DeleteRouter(router_id, fail) ==
    /\ cloud.routers[router_id] # NoneRec
    /\ DOMAIN cloud.routers[router_id].ports = {}
    /\ FipsOf(cloud, router_id) = {}
    /\ Done("l3_delete_router", [router_id |-> router_id, fail |-> fail],
            l3_delete_router(nb, cloud, router_id, fail # 1))

L3AddRouterInterface(router_id, subnet_id, same_obj, fail) ==
    /\ cloud.routers[router_id] # NoneRec
    /\ subnet_id \notin SubnetsOfRouter(cloud, router_id)
    /\ RoomForNat(nb, router_id, 1)
    /\ Done("l3_add_router_interface",
            [router_id |-> router_id, subnet_id |-> subnet_id, fail |-> fail],
            l3_add_router_interface(nb, cloud, router_id, [subnet_id |-> subnet_id],
                                    same_obj, InterfaceCommits(fail)))

L3RemoveRouterInterface(router_id, subnet_id, fail) ==
    /\ cloud.routers[router_id] # NoneRec
    /\ subnet_id \in SubnetsOfRouter(cloud, router_id)
    /\ Done("l3_remove_router_interface",
            [router_id |-> router_id, subnet_id |-> subnet_id, fail |-> fail],
            l3_remove_router_interface(nb, cloud, router_id, [subnet_id |-> subnet_id],
                                       InterfaceCommits(fail)))

(***************************************************************************)
(* Gateways: router r1 is created, updated and deleted under an            *)
(* environment that may refuse a transaction; its interfaces come and go   *)
(* undisturbed.                                                            *)
(***************************************************************************)
\* The gateways r1 is given here have one IPv4 address.
GwGateways == {gw \in RouterGateways : gw = NoneRec \/ Len(gw.external_fixed_ips) = 1}

GwCreateRouter ==
    \E gw \in GwGateways, fail \in 0..4 : L3CreateRouter("r1", gw, fail)

GwUpdateRouter ==
    \E gw \in GwGateways, fail \in 0..5 : L3UpdateRouter("r1", gw, fail)

GwDeleteRouter ==
    \E fail \in 0..1 : L3DeleteRouter("r1", fail)

GwAddRouterInterface ==
    \E subnet_id \in {"s1", "s2"} : L3AddRouterInterface("r1", subnet_id, TRUE, 0)

GwRemoveRouterInterface ==
    \E subnet_id \in {"s1", "s2"} : L3RemoveRouterInterface("r1", subnet_id, 0)

NextGateway ==
    \/ GwCreateRouter
    \/ GwUpdateRouter
    \/ GwDeleteRouter
    \/ GwAddRouterInterface
    \/ GwRemoveRouterInterface

SpecGateway == Init /\ [][NextGateway]_vars

(***************************************************************************)
(* Interfaces: routers are created with their gateway, their interfaces    *)
(* come and go, SNAT is switched on, and a floating IP is served by r1.    *)
(* Every transaction commits.  Router r1 is given every request; r2 stands *)
(* by it with one gateway and one subnet.                                  *)
(***************************************************************************)
GatewaysOf(router_id) ==
    IF router_id = "r1" THEN RouterGateways \ {NoneRec} ELSE {ExtGw(<<"e4">>, TRUE)}

InterfacesOf(router_id) == IF router_id = "r1" THEN {"s1", "s2", "s6"} ELSE {"s2"}

IfCreateRouter ==
    \E router_id \in Routers :
        \E gw \in GatewaysOf(router_id) : L3CreateRouter(router_id, gw, 0)

\* SNAT is switched on for r1's gateway.
IfEnableSnat ==
    /\ cloud.routers["r1"] # NoneRec
    /\ cloud.routers["r1"].gw # NoneRec
    /\ ~cloud.routers["r1"].gw.enable_snat
    /\ L3UpdateRouter("r1", [cloud.routers["r1"].gw EXCEPT !.enable_snat = TRUE], 0)

IfAddRouterInterface ==
    \E router_id \in Routers :
        \E subnet_id \in InterfacesOf(router_id), same_obj \in BOOLEAN :
            L3AddRouterInterface(router_id, subnet_id, same_obj, 0)

IfRemoveRouterInterface ==
    \E subnet_id \in InterfacesOf("r1") : L3RemoveRouterInterface("r1", subnet_id, 0)

\* Floating IP f1 is given to port vm1 behind r1, and taken back.
IfCreateFloatingip ==
    \E row \in {r \in Targets : r.fixed_ip_address = "l1"} :
        /\ cloud.fips["f1"] = NoneRec
        /\ Associable(cloud, "f1", row)
        /\ RoomForNat(nb, row.router_id, 1)
        /\ Done("l3_create_floatingip", [id |-> "f1", row |-> row],
                l3_create_floatingip(nb, cloud, "f1", row, TRUE))

IfDeleteFloatingip ==
    /\ cloud.fips["f1"] # NoneRec
    /\ Done("l3_delete_floatingip", [id |-> "f1"],
            l3_delete_floatingip(nb, cloud, "f1", TRUE))

NextInterface ==
    \/ IfCreateRouter
    \/ IfEnableSnat
    \/ IfAddRouterInterface
    \/ IfRemoveRouterInterface
    \/ IfCreateFloatingip
    \/ IfDeleteFloatingip

SpecInterface == Init /\ [][NextInterface]_vars

(***************************************************************************)
(* Properties of the gateway operations.                                   *)
(***************************************************************************)
\* The rows of type snat in a NAT table whose logical_ip is one of nets.
SnatRules(rules, nets) ==
    {i \in 1..Len(rules) : rules[i].type = "snat" /\ rules[i].logical_ip \in nets}

\* The networks the plugin hands to the client for the router of the last
\* operation: the IPv4 cidrs of its interfaces.
LastNetworks ==
    IF cloud.routers[last.args.router_id] = NoneRec THEN {}
    ELSE Range(_get_v4_network_of_all_router_ports(cloud, last.args.router_id))

\* The last operation ran _add_router_ext_gw for the gateway in its arguments.
GatewayAdded ==
    /\ last.op \in {"l3_create_router", "l3_update_router"}
    /\ last.args.gw # NoneRec
    /\ last.op = "l3_update_router" =>
           \/ last.args.original_gw = NoneRec
           \/ _check_external_ips_changed(last.args.original_gw, last.args.gw)

\* The transaction of one of the three steps of _add_router_ext_gw failed.
AddStepFailed(cmd) ==
    /\ GatewayAdded
    /\ \E i \in 1..Len(last.txns) :
           /\ ~last.txns[i].committed
           /\ last.txns[i].cmds[1].cmd = cmd

AnyAddStepFailed ==
    \/ AddStepFailed("add_lrouter_port")
    \/ AddStepFailed("add_static_route")
    \/ AddStepFailed("add_nat_rule_in_lrouter")

\* What a failed step of _add_router_ext_gw leaves for the router of the last
\* operation and the gateway in its arguments.
GatewayAbsent ==
    LET router_id == last.args.router_id
        lrouter == ovn_name(router_id)
        new_router == [id |-> router_id, external_gateway_info |-> last.args.gw]
        ext_gw_ip == _get_external_router_and_gateway_ip(new_router)[2]
    IN /\ last.raised
       /\ ovn_lrouter_port_name(<<router_id, last.args.gw.network_id>>) \notin DOMAIN nb.lrps
       /\ lrouter \in DOMAIN nb.lrouters
       /\ \A i \in 1..Len(RoutesOf(nb, lrouter)) :
              RoutesOf(nb, lrouter)[i] # [ip_prefix |-> "0.0.0.0/0", nexthop |-> ext_gw_ip]
       /\ SnatRules(NatOf(nb, lrouter), LastNetworks) = {}

SnatFlipped ==
    /\ last.op = "l3_update_router"
    /\ ~last.raised
    /\ last.args.gw # NoneRec
    /\ last.args.original_gw # NoneRec
    /\ ~_check_external_ips_changed(last.args.original_gw, last.args.gw)
    /\ last.args.original_gw.enable_snat # last.args.gw.enable_snat

\* C4: after an update_router that leaves the gateway as it is and flips
\* enable_snat, the router has a snat rule for each of its tenant networks
\* if enable_snat is now true, and for none of them if it is now false.
C4_SnatFollowsFlag ==
    SnatFlipped =>
        \A n \in LastNetworks :
            SnatRules(NatOf(nb, ovn_name(last.args.router_id)), {n}) # {}
                <=> last.args.gw.enable_snat

(***************************************************************************)
(* The client on its own: create_router is handed the router and the       *)
(* networks to install SNAT for, as the plugin or a synchronisation run    *)
(* would hand them; delete_router makes room for the next.                 *)
(***************************************************************************)
ClientNetworks == {NoNetworks, <<>>, <<"n1/24">>, <<"n1/24", "n2/24">>}

\* The router dict Neutron hands to the client.
RouterDict(router_id, gw) ==
    [id |-> router_id, name |-> "a", admin_state_up |-> TRUE,
     gw_port_id |-> IF gw = NoneRec THEN <<router_id, None>>
                    ELSE <<router_id, gw.network_id>>,
     external_gateway_info |-> gw, routes |-> <<>>]

ClientCreateRouter ==
    \E router_id \in Routers, gw \in RouterGateways, networks \in ClientNetworks,
       fail \in 0..4 :
        /\ ovn_name(router_id) \notin DOMAIN nb.lrouters
        /\ Done("create_router",
                [router_id |-> router_id, gw |-> gw, networks |-> networks, fail |-> fail],
                create_router(nb, RouterDict(router_id, gw), networks, CreateCommits(fail)))

ClientDeleteRouter ==
    \E router_id \in Routers, commit \in BOOLEAN :
        /\ ovn_name(router_id) \in DOMAIN nb.lrouters
        /\ Done("delete_router", [router_id |-> router_id],
                delete_router(nb, router_id, commit))

NextClient ==
    \/ ClientCreateRouter
    \/ ClientDeleteRouter

SpecClient == Init /\ [][NextClient]_vars

\* C7: create_router for a router R with an external gateway whose IPv4
\* subnet has gateway IP G, SNAT enabled and one tenant network N, when it
\* returns, leaves a logical router neutron-R, the router port
\* lrp-<gw_port_id> on it, a static route 0.0.0.0/0 with nexthop G, and
\* exactly one snat rule with logical_ip N, whose external_ip is R's
\* external IPv4 address; it is the router's only NAT rule.
C7_RouterCreatedWithGateway ==
    (/\ last.op = "create_router"
     /\ ~last.raised
     /\ last.args.gw # NoneRec
     /\ last.args.gw.enable_snat
     /\ last.args.networks \in {<<"n1/24">>}) =>
        LET lrouter == ovn_name(last.args.router_id)
            gw_port == ovn_lrouter_port_name(<<last.args.router_id, last.args.gw.network_id>>)
            ips == last.args.gw.external_fixed_ips
            v4 == CHOOSE i \in 1..Len(ips) :
                      /\ Subnets[ips[i].subnet_id].ip_version = 4
                      /\ \A j \in 1..(i - 1) : Subnets[ips[j].subnet_id].ip_version # 4
        IN /\ lrouter \in DOMAIN nb.lrouters
           /\ gw_port \in DOMAIN nb.lrps
           /\ nb.lrps[gw_port].lrouter = lrouter
           /\ \E i \in 1..Len(RoutesOf(nb, lrouter)) :
                  RoutesOf(nb, lrouter)[i] =
                      [ip_prefix |-> "0.0.0.0/0",
                       nexthop |-> Subnets[ips[v4].subnet_id].gateway_ip]
           /\ Cardinality(SnatRules(NatOf(nb, lrouter), {"n1/24"})) = 1
           /\ Len(NatOf(nb, lrouter)) = 1
           /\ NatOf(nb, lrouter)[1].external_ip = ips[v4].ip_address

\* create_router returned for a router whose gateway has an IPv6 fixed IP
\* before its IPv4 one, with one network, and all three steps committed.
C7_Witness_ThreeStepsCommitted ==
    /\ last.op = "create_router"
    /\ ~last.raised
    /\ last.args.gw = ExtGw(<<"e6", "e4">>, TRUE)
    /\ last.args.networks = <<"n1/24">>
    /\ Len(last.txns) = 4
    /\ \A i \in 1..4 : last.txns[i].committed

(***************************************************************************)
(* Ports and the DHCP options of their subnets.  Port p1 of network netA   *)
(* is created, updated and deleted while the subnets s1 (IPv4) and s6      *)
(* (IPv6) are created, updated and deleted.  A port operation reads the    *)
(* database (PortRead) and later opens its transaction (PortWrite); the    *)
(* subnet operations of another worker may run in between.  Every          *)
(* transaction commits unless one of its commands fails.                   *)
(*   inflight: [op, port, original_port, port_info, db], db the database   *)
(*   as the operation read it                                              *)
(***************************************************************************)
MaxDhcp == 4

RoomForDhcp(n) == nb.dhcp_made + n <= MaxDhcp

PortNetwork == [id |-> "netA", mtu |-> "1442"]

RandomMac == "fa:16:3e:00:00:01"

\* The subnet dict of Neutron; held: [enable_dhcp, dns_nameservers].
SubnetDict(subnet_id, held) ==
    [id |-> subnet_id, network_id |-> Subnets[subnet_id].network_id,
     ip_version |-> Subnets[subnet_id].ip_version, cidr |-> Subnets[subnet_id].cidr,
     gateway_ip |-> Subnets[subnet_id].gateway_ip,
     enable_dhcp |-> held.enable_dhcp, dns_nameservers |-> held.dns_nameservers,
     host_routes |-> <<>>,
     ipv6_address_mode |-> IF Subnets[subnet_id].ip_version = 6 THEN "dhcpv6-stateful"
                           ELSE None]

\* What a subnet can be set to.
SubnetSettings(subnet_id) ==
    IF subnet_id = "s1"
    THEN {[enable_dhcp |-> TRUE, dns_nameservers |-> <<>>],
          [enable_dhcp |-> TRUE, dns_nameservers |-> <<"d1">>],
          [enable_dhcp |-> FALSE, dns_nameservers |-> <<>>]}
    ELSE {[enable_dhcp |-> TRUE, dns_nameservers |-> <<>>]}

Edo(ip_version, opt_name, opt_value) ==
    [ip_version |-> ip_version, opt_name |-> opt_name, opt_value |-> opt_value]

PortDict(id, device_owner, fixed_ips, extra_dhcp_opts, security_groups) ==
    [id |-> id, network_id |-> "netA", device_owner |-> device_owner,
     mac_address |-> "fa:16:3e:00:00:02", fixed_ips |-> fixed_ips,
     extra_dhcp_opts |-> extra_dhcp_opts, security_groups |-> security_groups,
     port_security_enabled |-> TRUE, allowed_address_pairs |-> <<>>]

\* The ports of the DHCP scenarios: a VM's port with and without extra DHCP
\* options, and the port of a DHCP agent.
DhcpPorts ==
    {PortDict("p1", "compute:nova", <<[subnet_id |-> "s1", ip_address |-> "10.1"]>>,
              e, <<>>) :
        e \in {<<>>, <<Edo(4, "mtu", "1400")>>, <<Edo(4, "bogus", "x")>>,
               <<Edo(4, "mtu", "1400"), Edo(4, "dhcp_disabled", "true")>>}}
    \cup {PortDict("p1", "compute:nova",
                   <<[subnet_id |-> "s1", ip_address |-> "10.1"],
                     [subnet_id |-> "s6", ip_address |-> "fd::1"]>>,
                   e, <<>>) :
             e \in {<<>>, <<Edo(6, "dns-server", "{d9}")>>}}
    \cup {PortDict("p1", "network:dhcp",
                   <<[subnet_id |-> "s1", ip_address |-> "10.2"]>>,
                   <<Edo(4, "mtu", "1400")>>, <<>>)}

\* self._plugin.get_ports with a filter on the subnet of the fixed IPs.
get_ports(cl, subnet_id) ==
    LET on == {id \in PortIds :
                  /\ cl.ports[id] # NoneRec
                  /\ \E i \in 1..Len(cl.ports[id].fixed_ips) :
                         cl.ports[id].fixed_ips[i].subnet_id = subnet_id}
    IN SelectSeq(<<"p1">>, LAMBDA id : id \in on)

PortsOn(cl, subnet_id) ==
    [i \in 1..Len(get_ports(cl, subnet_id)) |-> cl.ports[get_ports(cl, subnet_id)[i]]]

\* Neutron gives a port addresses on subnets that exist.
Addressable(cl, port) ==
    \A i \in 1..Len(port.fixed_ips) : cl.subnets[port.fixed_ips[i].subnet_id] # NoneRec

DhcpCreateSubnet ==
    \E subnet_id \in PortSubnets :
        \E held \in SubnetSettings(subnet_id) :
            /\ cloud.subnets[subnet_id] = NoneRec
            /\ RoomForDhcp(1)
            /\ Done("create_subnet", [subnet_id |-> subnet_id, subnet |-> held],
                    InCloud(create_subnet(nb, SubnetDict(subnet_id, held), PortNetwork,
                                          RandomMac, TRUE),
                            [cloud EXCEPT !.subnets[subnet_id] = held]))

DhcpUpdateSubnet ==
    \E subnet_id \in PortSubnets :
        \E held \in SubnetSettings(subnet_id) :
            /\ cloud.subnets[subnet_id] # NoneRec
            /\ cloud.subnets[subnet_id] # held
            /\ RoomForDhcp(2)
            /\ Done("update_subnet", [subnet_id |-> subnet_id, subnet |-> held],
                    InCloud(update_subnet(nb, PortsOn(cloud, subnet_id),
                                SubnetDict(subnet_id, held),
                                SubnetDict(subnet_id, cloud.subnets[subnet_id]),
                                PortNetwork, RandomMac, <<TRUE, TRUE>>),
                            [cloud EXCEPT !.subnets[subnet_id] = held]))

\* Neutron deletes a subnet no port has an address on.
DhcpDeleteSubnet ==
    \E subnet_id \in PortSubnets :
        /\ cloud.subnets[subnet_id] # NoneRec
        /\ get_ports(cloud, subnet_id) = <<>>
        /\ Done("delete_subnet", [subnet_id |-> subnet_id],
                InCloud(delete_subnet(nb, subnet_id, TRUE),
                        [cloud EXCEPT !.subnets[subnet_id] = NoneRec]))

\* The first half of create_port and update_port: Neutron holds the port,
\* and the client has computed its attributes from the database.
PortRead(op, port) ==
    /\ inflight = NoneRec
    /\ Addressable(cloud, port)
    /\ IF op = "create_port" THEN cloud.ports[port.id] = NoneRec
       ELSE cloud.ports[port.id] \notin {NoneRec, port}
    /\ inflight' = [op |-> op, port |-> port, original_port |-> cloud.ports[port.id],
                    port_info |-> _get_port_options(nb, port), db |-> nb]
    /\ cloud' = [cloud EXCEPT !.ports[port.id] = port]
    /\ UNCHANGED <<nb, last>>

\* The second half: the transaction, on the database as it is by now.
PortWrite(stale_kept) ==
    /\ inflight # NoneRec
    /\ RoomForDhcp(2)
    /\ \E r \in {IF inflight.op = "create_port"
                 THEN CreatePortChecked(nb, inflight.port, inflight.port_info,
                                            TRUE, stale_kept)
                 ELSE UpdatePortTransaction(nb, inflight.port, inflight.original_port,
                                            inflight.port_info, TRUE, stale_kept)} :
           /\ nb' = r.db
           /\ last' = [op |-> inflight.op,
                       args |-> [port |-> inflight.port,
                                 original_port |-> inflight.original_port],
                       raised |-> r.raised, txns |-> r.txns, clean |-> last.clean]
    /\ inflight' = NoneRec
    /\ UNCHANGED cloud

DhcpCreatePort == \E port \in DhcpPorts : PortRead("create_port", port)

DhcpUpdatePort == \E port \in DhcpPorts : PortRead("update_port", port)

DhcpWritePort == \E stale_kept \in BOOLEAN : PortWrite(stale_kept)

DhcpDeletePort ==
    \E id \in PortIds :
        /\ inflight = NoneRec
        /\ cloud.ports[id] # NoneRec
        /\ Done("delete_port", [port |-> cloud.ports[id]],
                InCloud(delete_port(nb, cloud.ports[id], TRUE),
                        [cloud EXCEPT !.ports[id] = NoneRec]))

NextDhcp ==
    \/ DhcpCreateSubnet
    \/ DhcpUpdateSubnet
    \/ DhcpDeleteSubnet
    \/ DhcpCreatePort
    \/ DhcpUpdatePort
    \/ DhcpWritePort
    \/ DhcpDeletePort

SpecDhcp == InitPorts /\ [][NextDhcp]_vars

PortRowRule(port, read, cmds, ip_version) ==
    LET edos == {port.extra_dhcp_opts[i] : i \in
                    {j \in 1..Len(port.extra_dhcp_opts) :
                        port.extra_dhcp_opts[j].ip_version = ip_version}}
        disabled == \/ is_network_device_port(port)
                    \/ \E e \in edos : /\ e.opt_name = "dhcp_disabled"
                                       /\ e.opt_value \in {"True", "true"}
        extra == {e \in edos : e.opt_name \in SupportedDhcpOpts(ip_version)}
        subnets == {port.fixed_ips[i].subnet_id : i \in
                       {j \in 1..Len(port.fixed_ips) :
                           IpVersion(port.fixed_ips[j].ip_address) = ip_version}}
        rows == {row \in read.dhcp : /\ row.external_ids.port_id = None
                                     /\ row.external_ids.subnet_id \in subnets}
        adds == {i \in 1..Len(cmds) :
                    /\ cmds[i].cmd = "add_dhcp_options"
                    /\ Subnets[cmds[i].subnet_id].ip_version = ip_version}
        writes == {i \in 1..Len(cmds) :
                      cmds[i].cmd \in {"create_lswitch_port", "set_lswitch_port"}}
        column == IF ip_version = 4 THEN "dhcpv4_options" ELSE "dhcpv6_options"
        wanted == ~disabled /\ rows # {} /\ extra # {}
    IN /\ Cardinality(writes) = 1
       /\ wanted <=> adds # {}
       /\ wanted =>
            /\ Cardinality(adds) = 1
            /\ \A i \in adds :
                 /\ cmds[i].port_id = port.id
                 /\ cmds[i].external_ids = [subnet_id |-> cmds[i].subnet_id,
                                            port_id |-> port.id]
                 /\ \E row \in rows :
                      /\ row.external_ids.subnet_id = cmds[i].subnet_id
                      /\ cmds[i].cidr = row.cidr
                      /\ DOMAIN cmds[i].options =
                             DOMAIN row.options \cup {Underscored(e.opt_name) : e \in extra}
                      /\ \A e \in extra :
                             cmds[i].options[Underscored(e.opt_name)] = e.opt_value
                      /\ \A k \in DOMAIN row.options \ {Underscored(e.opt_name) : e \in extra} :
                             cmds[i].options[k] = row.options[k]
                 /\ \A w \in writes :
                      /\ i < w
                      /\ cmds[w][column] = <<[subnet_id |-> cmds[i].subnet_id,
                                              port_id |-> port.id]>>
       /\ ~wanted =>
            \A w \in writes :
                \/ cmds[w][column] = <<>>
                \/ \E row \in rows : cmds[w][column] = <<[uuid |-> row.uuid]>>

\* C9: the transaction of create_port and of update_port holds a command
\* that adds a DHCP options row for the port (the subnet's options with the
\* port's extra options on top, port_id in external_ids), ahead of the
\* write of the logical switch port that refers to it, exactly when DHCP is
\* not disabled for the port and IP version, the subnet has a row and the
\* port has a supported extra option; otherwise the port is written with
\* the subnet's row or nothing and the transaction adds no row.  The rows
\* of subnets are the same before and after.
C9_PortRowOnlyForOverrides ==
    [][(inflight # NoneRec /\ inflight' = NoneRec) =>
          /\ Len(last'.txns) = 1
          /\ PortRowRule(inflight.port, inflight.db, last'.txns[1].cmds, 4)
          /\ PortRowRule(inflight.port, inflight.db, last'.txns[1].cmds, 6)
          /\ \A row \in nb'.dhcp \ nb.dhcp :
                 /\ row.external_ids.port_id = inflight.port.id
                 /\ \E i \in 1..Len(last'.txns[1].cmds) :
                        /\ last'.txns[1].cmds[i].cmd = "add_dhcp_options"
                        /\ last'.txns[1].cmds[i].subnet_id = row.external_ids.subnet_id
          /\ {row \in nb'.dhcp : row.external_ids.port_id = None}
                 = {row \in nb.dhcp : row.external_ids.port_id = None}]_vars

\* A port with an extra option was written together with its own row: the
\* transaction added the row and the port's column holds its uuid.
C9_Witness_PortRowAdded ==
    /\ last.op \in {"create_port", "update_port"}
    /\ ~last.raised
    /\ last.txns[1].cmds[1].cmd = "add_dhcp_options"
    /\ last.args.port.id \in DOMAIN nb.lsps
    /\ \E row \in nb.dhcp :
           /\ row.external_ids.port_id = last.args.port.id
           /\ "mtu" \in DOMAIN row.options
           /\ row.options["mtu"] = "1400"
           /\ nb.lsps[last.args.port.id].dhcpv4_options = <<row.uuid>>

(***************************************************************************)
(* Ports and the address sets of their security groups.  Security groups   *)
(* sg1 and sg2 come and go; port p1 is created, updated and deleted with   *)
(* its fixed IPs, its allowed address pairs and its groups changing.  The  *)
(* subnets have DHCP disabled.  Each operation runs from its read of the   *)
(* database to the end of its transaction.                                 *)
(***************************************************************************)
AddrSetPorts ==
    {[PortDict("p1", "compute:nova", f, <<>>, g) EXCEPT !.allowed_address_pairs = a] :
        f \in {<<>>,
               <<[subnet_id |-> "s1", ip_address |-> "10.1"]>>,
               <<[subnet_id |-> "s1", ip_address |-> "10.2"]>>,
               <<[subnet_id |-> "s1", ip_address |-> "10.1"],
                 [subnet_id |-> "s6", ip_address |-> "fd::1"]>>},
        g \in {<<>>, <<"sg1">>, <<"sg2">>, <<"sg1", "sg2">>},
        a \in {<<>>, <<[mac_address |-> "fa:16:3e:00:00:09", ip_address |-> "10.9"]>>}}

\* The DHCP agent's port, with and without a security group listed on it.
TrustedAddrSetPorts ==
    {PortDict("p1", "network:dhcp", <<[subnet_id |-> "s1", ip_address |-> "10.2"]>>, <<>>, g) :
        g \in {<<>>, <<"sg1">>}}

\* Neutron in these scenarios gives allowed address pairs to ports that
\* have a fixed IP.
WithAddress(port) == port.allowed_address_pairs # <<>> => port.fixed_ips # <<>>

AsCreateSubnet ==
    \E subnet_id \in PortSubnets :
        /\ cloud.subnets[subnet_id] = NoneRec
        /\ \E held \in {[enable_dhcp |-> FALSE, dns_nameservers |-> <<>>]} :
               Done("create_subnet", [subnet_id |-> subnet_id, subnet |-> held],
                    InCloud(create_subnet(nb, SubnetDict(subnet_id, held), PortNetwork,
                                          RandomMac, TRUE),
                            [cloud EXCEPT !.subnets[subnet_id] = held]))

AsCreateSecurityGroup ==
    \E sg_id \in Range(SecurityGroups) :
        /\ ovn_addrset_name(sg_id, "ip4") \notin DOMAIN nb.asets
        /\ Done("create_security_group", [id |-> sg_id],
                create_security_group(nb, [id |-> sg_id], TRUE))

\* Neutron deletes a security group no port is in.
AsDeleteSecurityGroup ==
    \E sg_id \in Range(SecurityGroups) :
        /\ ovn_addrset_name(sg_id, "ip4") \in DOMAIN nb.asets
        /\ \A id \in PortIds :
               IF cloud.ports[id] = NoneRec THEN TRUE
               ELSE sg_id \notin Range(cloud.ports[id].security_groups)
        /\ Done("delete_security_group", [id |-> sg_id],
                delete_security_group(nb, [id |-> sg_id], TRUE))

\* On an exception Neutron drops the port it had made.
AsCreatePort ==
    \E port \in AddrSetPorts \cup TrustedAddrSetPorts :
        /\ WithAddress(port)
        /\ Addressable(cloud, port)
        /\ cloud.ports[port.id] = NoneRec
        /\ \E r \in {create_port(nb, port, TRUE, TRUE)} :
               Done("create_port", [port |-> port, original_port |-> NoneRec],
                    InCloud(r, IF r.raised THEN cloud
                               ELSE [cloud EXCEPT !.ports[port.id] = port]))

AsUpdatePort ==
    \E port \in AddrSetPorts :
        /\ WithAddress(port)
        /\ Addressable(cloud, port)
        /\ cloud.ports[port.id] \notin {NoneRec, port}
        /\ cloud.ports[port.id].device_owner = port.device_owner
        /\ Done("update_port", [port |-> port, original_port |-> cloud.ports[port.id]],
                InCloud(update_port(nb, port, cloud.ports[port.id], TRUE, TRUE),
                        [cloud EXCEPT !.ports[port.id] = port]))

AsDeletePort ==
    \E id \in PortIds :
        /\ cloud.ports[id] # NoneRec
        /\ Done("delete_port", [port |-> cloud.ports[id]],
                InCloud(delete_port(nb, cloud.ports[id], TRUE),
                        [cloud EXCEPT !.ports[id] = NoneRec]))

NextAddrSet ==
    \/ AsCreateSubnet
    \/ AsCreateSecurityGroup
    \/ AsDeleteSecurityGroup
    \/ AsCreatePort
    \/ AsUpdatePort
    \/ AsDeletePort

SpecAddrSet == InitPorts /\ [][NextAddrSet]_vars

(***************************************************************************)
(* Port operations in flight together.  Neutron has committed each         *)
(* operation to its own database, in the order they were issued, before    *)
(* the client is called; the calls of the client then run side by side,    *)
(* each with the port dicts Neutron handed it, and their transactions      *)
(* commit in either order.  inflight.pending holds the operations whose    *)
(* transaction has not committed yet.                                      *)
(***************************************************************************)
MaxPending == 2

RacePorts ==
    {PortDict("p1", "compute:nova", <<[subnet_id |-> "s1", ip_address |-> "10.1"]>>,
              <<>>, g) : g \in {<<"sg1">>, <<"sg2">>}}

Pending == IF inflight = NoneRec THEN <<>> ELSE inflight.pending

\* The transaction of an operation in flight, on the database as it is now.
PendingTransaction(db, o) ==
    IF o.op = "create_port"
    THEN CreatePortChecked(db, o.port, o.port_info, TRUE, TRUE)
    ELSE IF o.op = "update_port"
    THEN UpdatePortTransaction(db, o.port, o.original_port, o.port_info, TRUE, TRUE)
    ELSE delete_port(db, o.port, TRUE)

RaceCreateSubnet ==
    /\ cloud.subnets["s1"] = NoneRec
    /\ \E held \in {[enable_dhcp |-> FALSE, dns_nameservers |-> <<>>]} :
           Done("create_subnet", [subnet_id |-> "s1", subnet |-> held],
                InCloud(create_subnet(nb, SubnetDict("s1", held), PortNetwork, RandomMac, TRUE),
                        [cloud EXCEPT !.subnets["s1"] = held]))

RaceCreateSecurityGroup ==
    \E sg_id \in Range(SecurityGroups) :
        /\ ovn_addrset_name(sg_id, "ip4") \notin DOMAIN nb.asets
        /\ Done("create_security_group", [id |-> sg_id],
                create_security_group(nb, [id |-> sg_id], TRUE))

\* Neutron has the security groups of a port before it has the port.
GroupsExist(port) ==
    \A sg_id \in Range(port.security_groups) : ovn_addrset_name(sg_id, "ip4") \in DOMAIN nb.asets

Issue(op, port, original_port) ==
    /\ Len(Pending) < MaxPending
    /\ inflight' = [pending |-> Append(Pending,
                        [op |-> op, port |-> port, original_port |-> original_port,
                         port_info |-> _get_port_options(nb, port)])]
    /\ cloud' = [cloud EXCEPT !.ports[port.id] = IF op = "delete_port" THEN NoneRec ELSE port]
    /\ UNCHANGED <<nb, last>>

RaceCreatePort ==
    \E port \in RacePorts :
        /\ Addressable(cloud, port)
        /\ GroupsExist(port)
        /\ cloud.ports[port.id] = NoneRec
        /\ Issue("create_port", port, NoneRec)

RaceUpdatePort ==
    \E port \in RacePorts :
        /\ GroupsExist(port)
        /\ cloud.ports[port.id] \notin {NoneRec, port}
        /\ Issue("update_port", port, cloud.ports[port.id])

RaceDeletePort ==
    \E id \in PortIds :
        /\ cloud.ports[id] # NoneRec
        /\ Issue("delete_port", cloud.ports[id], NoneRec)

\* The transaction of one of the operations in flight commits or fails.
RaceCommit ==
    \E i \in 1..Len(Pending) :
        \E r \in {PendingTransaction(nb, Pending[i])} :
            /\ nb' = r.db
            /\ last' = [op |-> Pending[i].op,
                        args |-> [port |-> Pending[i].port,
                                  original_port |-> Pending[i].original_port],
                        raised |-> r.raised, txns |-> r.txns, clean |-> last.clean]
            /\ inflight' = IF Len(Pending) = 1 THEN NoneRec
                           ELSE [pending |-> RemoveAt(Pending, i)]
            /\ UNCHANGED cloud

NextRace ==
    \/ RaceCreateSubnet
    \/ RaceCreateSecurityGroup
    \/ RaceCreatePort
    \/ RaceUpdatePort
    \/ RaceDeletePort
    \/ RaceCommit

SpecRace == InitPorts /\ [][NextRace]_vars

\* The address sets a transaction writes.
AddressSetsOf(o) ==
    LET cmds == PendingTransaction(nb, o).txns[1].cmds
    IN {cmds[i].name : i \in {j \in 1..Len(cmds) : cmds[j].cmd = "update_address_set"}}

\* The address sets after the operations in flight commit in the given order.
AddressSetsAfter(order) ==
    PendingTransaction(PendingTransaction(nb, Pending[order[1]]).db, Pending[order[2]]).db.asets

\* C13: when two operations in flight write the address set of the same
\* security group, the address sets end up the same whichever of the two
\* transactions commits first.
C13_AddressSetsConverge ==
    (Len(Pending) = 2 /\ AddressSetsOf(Pending[1]) \cap AddressSetsOf(Pending[2]) # {})
        => AddressSetsAfter(<<1, 2>>) = AddressSetsAfter(<<2, 1>>)

\* The update_address_set commands of the last transaction on one address
\* set, in the order they were enqueued.
AddressSetWrites(name) ==
    SelectSeq(last.txns[1].cmds,
              LAMBDA c : c.cmd = "update_address_set" /\ c.name = name)

\* What update_port owes the address set of a group for one IP version:
\* the addresses to add and the addresses to remove.
AddressSetDue(port, original_port, sg_id, v) ==
    LET old_sg_ids == Range(original_port.security_groups)
        new_sg_ids == Range(port.security_groups)
        new == acl_port_ips(port)[v]
        old == acl_port_ips(original_port)[v]
    IN IF sg_id \in old_sg_ids \ new_sg_ids THEN [add |-> {}, remove |-> old]
       ELSE IF sg_id \in new_sg_ids \ old_sg_ids THEN [add |-> new, remove |-> {}]
       ELSE IF sg_id \in new_sg_ids \cap old_sg_ids
               /\ port.fixed_ips # original_port.fixed_ips
       THEN [add |-> new \ old, remove |-> old \ new]
       ELSE [add |-> {}, remove |-> {}]

C11_CreatePortFillsAddressSets ==
    last.op = "create_port" =>
        LET port == last.args.port
            cmds == last.txns[1].cmds
            exempt == is_lsp_trusted(port) \/ port.fixed_ips = <<>>
        IN /\ Len(last.txns) = 1
           /\ \E i \in 1..Len(cmds) :
                  cmds[i].cmd = "create_lswitch_port" /\ cmds[i].lport_name = port.id
           /\ \A sg_id \in Range(SecurityGroups), v \in Range(IpVersions) :
                  LET on_set == AddressSetWrites(ovn_addrset_name(sg_id, v))
                      addrs == acl_port_ips(port)[v]
                  IN IF ~exempt /\ sg_id \in Range(port.security_groups) /\ addrs # {}
                     THEN /\ Len(on_set) = 1
                          /\ on_set[1].addrs_add = addrs
                          /\ on_set[1].addrs_remove = {}
                          /\ ~last.raised =>
                                 addrs \subseteq nb.asets[ovn_addrset_name(sg_id, v)]
                     ELSE on_set = <<>>
           /\ last.raised <=> port.id \notin DOMAIN nb.lsps

\* A port with an IPv4 and an IPv6 address was created in both groups.
C11_Witness_BothGroupsBothVersions ==
    /\ last.op = "create_port"
    /\ ~last.raised
    /\ last.args.port.security_groups = <<"sg1", "sg2">>
    /\ Len(last.args.port.fixed_ips) = 2
    /\ Len(SelectSeq(last.txns[1].cmds, LAMBDA c : c.cmd = "update_address_set")) = 4
    /\ "fd::1" \in nb.asets[ovn_addrset_name("sg2", "ip6")]

\* A trusted port with fixed IPs and a security group was created.
C11_Witness_TrustedPort ==
    /\ last.op = "create_port"
    /\ ~last.raised
    /\ is_lsp_trusted(last.args.port)
    /\ last.args.port.security_groups = <<"sg1">>
    /\ last.args.port.fixed_ips # <<>>
    /\ ovn_addrset_name("sg1", "ip4") \in DOMAIN nb.asets

TxnsWith(cmd) ==
    {i \in 1..Len(last.txns) :
        \E k \in 1..Len(last.txns[i].cmds) : last.txns[i].cmds[k].cmd = cmd}

\* The places of the commands of one kind in a transaction.
CmdsWith(txn, cmd) == {k \in 1..Len(txn.cmds) : txn.cmds[k].cmd = cmd}

\* The addition of a gateway: the router port, then the default route, then
\* the SNAT rules, each in a transaction of its own.
GatewayAddOrder ==
    /\ \A i \in TxnsWith("add_static_route"), j \in TxnsWith("add_lrouter_port") : j < i
    /\ \A i \in TxnsWith("add_nat_rule_in_lrouter"), j \in TxnsWith("add_static_route") : j < i

\* The transactions of the last operation that remove a gateway.
RemovalTxns == {last.txns[i] : i \in TxnsWith("delete_static_route")}

RouteGateways ==
    {NoneRec, ExtGw(<<"e4">>, TRUE), ExtGw(<<"e6", "e4">>, TRUE), ExtGw(<<"e4b">>, TRUE)}

\* The gateway IPs an external subnet is given.
GatewayIps == [e4 |-> {"g1", "g1b"}, e6 |-> {"g6", "g6b"}, e4b |-> {"g2"}]

RtCreateRouter ==
    \E router_id \in Routers, gw \in RouteGateways : L3CreateRouter(router_id, gw, 0)

RtUpdateRouter ==
    \E router_id \in Routers, gw \in RouteGateways : L3UpdateRouter(router_id, gw, 0)

RtDeleteRouter ==
    \E router_id \in Routers : L3DeleteRouter(router_id, 0)

RtSubnetUpdate ==
    \E subnet_id \in ExternalSubnets, gateway_ip \in {"g1", "g1b", "g6", "g6b"} :
        /\ gateway_ip \in GatewayIps[subnet_id]
        /\ gateway_ip # cloud.gateway_ips[subnet_id]
        /\ \A router_id \in Routers : RoomForRoute(nb, router_id)
        /\ Done("_subnet_update", [subnet_id |-> subnet_id, gateway_ip |-> gateway_ip],
                _subnet_update(nb, [cloud EXCEPT !.gateway_ips[subnet_id] = gateway_ip],
                    [id |-> subnet_id, network_id |-> Subnets[subnet_id].network_id,
                     gateway_ip |-> cloud.gateway_ips[subnet_id]],
                    [id |-> subnet_id, network_id |-> Subnets[subnet_id].network_id,
                     gateway_ip |-> gateway_ip]))

NextRoute ==
    \/ RtCreateRouter
    \/ RtUpdateRouter
    \/ RtDeleteRouter
    \/ RtSubnetUpdate

SpecRoute == Init /\ [][NextRoute]_vars

\* The routes of a logical router with prefix 0.0.0.0/0.
DefaultRoutes(lrouter) ==
    SelectSeq(RoutesOf(nb, lrouter), LAMBDA route : route.ip_prefix = "0.0.0.0/0")

\* C16: every logical router has at most one static route with prefix
\* 0.0.0.0/0, and while its router has an external gateway with an IPv4
\* fixed IP, the nexthop of that route is the gateway IP Neutron now holds
\* for the subnet of the first IPv4 external fixed IP.
C16_OneDefaultRouteThroughGateway ==
    \A router_id \in Routers :
        ovn_name(router_id) \in DOMAIN nb.lrouters =>
            /\ Len(DefaultRoutes(ovn_name(router_id))) <= 1
            /\ IF cloud.routers[router_id] = NoneRec THEN TRUE
               ELSE IF cloud.routers[router_id].gw = NoneRec THEN TRUE
               ELSE LET ips == cloud.routers[router_id].gw.external_fixed_ips
                        v4 == {i \in 1..Len(ips) : Subnets[ips[i].subnet_id].ip_version = 4}
                    IN v4 # {} =>
                        /\ Len(DefaultRoutes(ovn_name(router_id))) = 1
                        /\ DefaultRoutes(ovn_name(router_id))[1].nexthop
                               = cloud.gateway_ips[ips[Min(v4)].subnet_id]

\* C15: a logical router neutron-<id> exists exactly when the Neutron router
\* <id> exists, whatever create_router and delete_router calls of the plugin
\* have returned or failed before.
C15_LogicalRouterIffRouter ==
    \A router_id \in Routers :
        ovn_name(router_id) \in DOMAIN nb.lrouters <=> cloud.routers[router_id] # NoneRec

(***************************************************************************)
(* Gateway scheduling: routers get and lose gateways on the flat network   *)
(* ext1 and the tunnelled network ext2, chassis come, change the physical  *)
(* networks they advertise and go, and schedule_unhosted_gateways runs.    *)
(* The transactions of the router operations commit; the one of a          *)
(* scheduling run may be refused.                                          *)
(***************************************************************************)
SchedGateways == {NoneRec, ExtGw(<<"e4">>, FALSE), ExtGw(<<"e4b">>, FALSE)}

ChassisPhysnets == {{}, {"physnet1"}}

SchedCreateRouter ==
    \E router_id \in Routers, gw \in SchedGateways : L3CreateRouter(router_id, gw, 0)

SchedUpdateRouter ==
    \E router_id \in Routers, gw \in SchedGateways : L3UpdateRouter(router_id, gw, 0)

SchedDeleteRouter ==
    \E router_id \in Routers : L3DeleteRouter(router_id, 0)

\* A chassis registers or changes what it advertises.
SchedChassisUp ==
    \E chassis \in Range(Chassis), physnets \in ChassisPhysnets :
        /\ chassis \in DOMAIN cloud.chassis => cloud.chassis[chassis] # physnets
        /\ Done("chassis_up", [chassis |-> chassis, physnets |-> physnets],
                InCloud(Skip(nb), [cloud EXCEPT !.chassis =
                                      (chassis :> physnets) @@ Without(@, chassis)]))

SchedChassisDown ==
    \E chassis \in DOMAIN cloud.chassis :
        Done("chassis_down", [chassis |-> chassis],
             InCloud(Skip(nb), [cloud EXCEPT !.chassis = Without(@, chassis)]))

SchedRun ==
    \E commit \in BOOLEAN :
        Done("schedule_unhosted_gateways", NoneRec,
             schedule_unhosted_gateways(nb, cloud, commit))

NextSched ==
    \/ SchedCreateRouter
    \/ SchedUpdateRouter
    \/ SchedDeleteRouter
    \/ SchedChassisUp
    \/ SchedChassisDown
    \/ SchedRun

SpecSched == Init /\ [][NextSched]_vars

\* The chassis every gateway port is bound to.
GatewayBindings(db) ==
    [name \in {n \in DOMAIN db.lrps : db.lrps[n].gateway_chassis # None} |->
        db.lrps[name].gateway_chassis]

\* C20: a run of schedule_unhosted_gateways that follows a run whose
\* transaction committed, with nothing in between, enqueues no write and
\* leaves every gateway port bound as the first run left it.
C20_SecondRunWritesNothing ==
    [][(/\ last.op = "schedule_unhosted_gateways" /\ ~last.raised
        /\ last'.op = "schedule_unhosted_gateways")
           => /\ last'.txns[1].cmds = <<>>
              /\ GatewayBindings(nb') = GatewayBindings(nb)]_vars

\* The chassis a gateway port of an external network is to be chosen from.
CandidateChassis(chassis_physnets, network_id) ==
    IF ExternalNetworks[network_id].network_type \in {"flat", "vlan"}
    THEN {chassis \in DOMAIN chassis_physnets :
             ExternalNetworks[network_id].physical_network \in chassis_physnets[chassis]}
    ELSE DOMAIN chassis_physnets

\* C21: a chassis that create_router_port or schedule_unhosted_gateways
\* binds a gateway port to is one of the candidates of the port's external
\* network: for a flat or VLAN network a chassis that advertises the
\* network's physical network, for a tunnelled network any chassis.
C21_ChosenAmongCandidates ==
    [][\A name \in DOMAIN GatewayBindings(nb') :
          (/\ name \in DOMAIN GatewayBindings(nb)
                  => GatewayBindings(nb)[name] # GatewayBindings(nb')[name]
           /\ GatewayBindings(nb')[name] # OVN_GATEWAY_INVALID_CHASSIS)
              => GatewayBindings(nb')[name] \in CandidateChassis(cloud.chassis, name[2][2])]_vars

(***************************************************************************)
(* Networks: they are created with and without a physical binding, a       *)
(* segmentation id and the metadata service, renamed and deleted.  The     *)
(* environment may refuse the transaction of create_network and of         *)
(* delete_network.  A network is created under an id no logical switch     *)
(* carries.                                                                *)
(***************************************************************************)
NetworkNames == {"n1", "n2"}

PhysicalNetworks == {None, "physnet1"}

SegmentationIds == {None, "100"}

NetCreateNetwork ==
    \E id \in NetworkIds, name \in NetworkNames, physnet \in PhysicalNetworks,
       segid \in SegmentationIds, metadata_enabled \in BOOLEAN, commit \in BOOLEAN :
        /\ cloud.networks[id] = NoneRec
        /\ ovn_name(id) \notin DOMAIN nb.lswitches
        /\ \E r \in {create_network(nb, [id |-> id, name |-> name], physnet, segid,
                                     metadata_enabled, commit)} :
               Done("create_network",
                    [network |-> [id |-> id, name |-> name], physnet |-> physnet,
                     segid |-> segid, metadata_enabled |-> metadata_enabled],
                    InCloud(r, IF r.raised THEN cloud
                               ELSE [cloud EXCEPT !.networks[id] =
                                        [name |-> name, physnet |-> physnet,
                                         segid |-> segid]]))

NetUpdateNetwork ==
    \E id \in NetworkIds, name \in NetworkNames :
        /\ cloud.networks[id] # NoneRec
        /\ Done("update_network", [network |-> [id |-> id, name |-> name]],
                InCloud(update_network(nb, [id |-> id, name |-> name],
                                       [id |-> id, name |-> cloud.networks[id].name],
                                       TRUE),
                        [cloud EXCEPT !.networks[id].name = name]))

\* Neutron has deleted the network when delete_network is called.
NetDeleteNetwork ==
    \E id \in NetworkIds, commit \in BOOLEAN :
        /\ cloud.networks[id] # NoneRec
        /\ Done("delete_network", [network_id |-> id],
                InCloud(delete_network(nb, id, commit),
                        [cloud EXCEPT !.networks[id] = NoneRec]))

NextNetwork ==
    \/ NetCreateNetwork
    \/ NetUpdateNetwork
    \/ NetDeleteNetwork

SpecNetwork == Init /\ [][NextNetwork]_vars

\* The provider port of a network, as create_network is to make it.
IsProviderPort(row, network_id, physnet, segid) ==
    /\ row.lswitch = ovn_name(network_id)
    /\ row.type = "localnet"
    /\ row.addresses = <<"unknown">>
    /\ row.options = {<<"network_name", physnet>>}
    /\ row.tag = IF segid = None THEN <<>> ELSE <<int(segid)>>

\* C18: a create_network(N) that returns has added the one logical switch
\* neutron-N; the provider port provnet-N (type localnet, addresses unknown,
\* option network_name = the physical network, tag = the segmentation id if
\* one is given and no tag otherwise) is there afterwards, made by the
\* transaction that made the switch, if and only if a physical network was
\* given; and at no time does a network without a physical binding have a
\* provider port.
C18_SwitchAndProviderPort ==
    /\ [](\A id \in NetworkIds :
            (cloud.networks[id] # NoneRec /\ cloud.networks[id].physnet = None)
                => ovn_provnet_port_name(id) \notin DOMAIN nb.lsps)
    /\ [][(last'.op = "create_network" /\ ~last'.raised) =>
            LET a == last'.args
                N == a.network.id
                cmds == last'.txns[1].cmds
            IN /\ ovn_name(N) \notin DOMAIN nb.lswitches
               /\ DOMAIN nb'.lswitches = DOMAIN nb.lswitches \cup {ovn_name(N)}
               /\ a.physnet # None <=> ovn_provnet_port_name(N) \in DOMAIN nb'.lsps
               /\ a.physnet # None =>
                      /\ IsProviderPort(nb'.lsps[ovn_provnet_port_name(N)], N,
                                        a.physnet, a.segid)
                      /\ last'.txns[1].committed
                      /\ \E i, j \in 1..Len(cmds) :
                             /\ cmds[i].cmd = "create_lswitch"
                             /\ cmds[i].lswitch_name = ovn_name(N)
                             /\ cmds[j].cmd = "create_lswitch_port"
                             /\ cmds[j].lport_name = ovn_provnet_port_name(N)]_vars

C18_Witness_TaggedProviderPort ==
    /\ last.op = "create_network" /\ ~last.raised
    /\ last.args.physnet = "physnet1" /\ last.args.segid = "100"
    /\ last.args.metadata_enabled
    /\ nb.lsps[ovn_provnet_port_name(last.args.network.id)].tag = <<100>>
    /\ \E id \in NetworkIds :
           /\ cloud.networks[id] # NoneRec
           /\ cloud.networks[id].physnet = None
           /\ cloud.networks[id].segid = "100"
           /\ "dhcp-" \o id \in DOMAIN nb.lsps

(***************************************************************************)
(* Ports on networks of another process.  A network is created by this     *)
(* process or by another one; the row of the other one's logical switch    *)
(* reaches this process's copy of the database some time later, or never   *)
(* while a create_port waits for it.  create_port runs in steps: it reads  *)
(* the port's attributes, then looks for the logical switch, one try at a  *)
(* step, and the step that finds it opens the transaction.  inflight is    *)
(* the create_port under way: [port, port_info, attempts], attempts being  *)
(* the tries that did not find the switch.  Every transaction commits.     *)
(***************************************************************************)
RetryPorts ==
    {[PortDict("p1", "compute:nova", <<>>, <<>>, <<>>) EXCEPT !.network_id = n] :
        n \in NetworkIds}

RetryCreateNetwork ==
    \E id \in NetworkIds, elsewhere \in BOOLEAN :
        /\ cloud.networks[id] = NoneRec
        /\ ovn_name(id) \notin DOMAIN nb.lswitches
        /\ \E r \in {create_network(nb, [id |-> id, name |-> "n1"], None, None,
                                     FALSE, TRUE)} :
               Done("create_network",
                    [network |-> [id |-> id, name |-> "n1"], elsewhere |-> elsewhere],
                    InCloud([r EXCEPT !.db.lswitches[ovn_name(id)].visible = ~elsewhere],
                            [cloud EXCEPT !.networks[id] =
                                [name |-> "n1", physnet |-> None, segid |-> None]]))

\* The row of a logical switch reaches this process's copy of the database.
RetryReplicate ==
    \E name \in DOMAIN nb.lswitches :
        /\ ~nb.lswitches[name].visible
        /\ nb' = [nb EXCEPT !.lswitches[name].visible = TRUE]
        /\ UNCHANGED <<cloud, last, inflight>>

\* Neutron deletes a network that has no port.
RetryDeleteNetwork ==
    \E id \in NetworkIds :
        /\ cloud.networks[id] # NoneRec
        /\ SwitchVisible(nb, ovn_name(id))
        /\ \A p \in PortIds :
               IF cloud.ports[p] = NoneRec THEN TRUE ELSE cloud.ports[p].network_id # id
        /\ Done("delete_network", [network_id |-> id],
                InCloud(delete_network(nb, id, TRUE),
                        [cloud EXCEPT !.networks[id] = NoneRec]))

\* create_port is called: Neutron holds the port and its network.
RetryCreatePort ==
    \E port \in RetryPorts :
        /\ inflight = NoneRec
        /\ cloud.networks[port.network_id] # NoneRec
        /\ cloud.ports[port.id] = NoneRec
        /\ inflight' = [port |-> port, port_info |-> _get_port_options(nb, port),
                        attempts |-> 0]
        /\ cloud' = [cloud EXCEPT !.ports[port.id] = port]
        /\ UNCHANGED <<nb, last>>

\* One try of the check.  When it finds the switch, the transaction follows;
\* when it raises, Neutron drops the port.
RetryCheck ==
    /\ inflight # NoneRec
    /\ \E found \in {CheckForRow(nb, ovn_name(inflight.port.network_id),
                                  inflight.attempts)} :
           IF found = "retry"
           THEN /\ inflight' = [inflight EXCEPT !.attempts = @ + 1]
                /\ UNCHANGED <<nb, cloud, last>>
           ELSE \E r \in {IF found = "found"
                          THEN CreatePortTransaction(nb, inflight.port, inflight.port_info,
                                                     TRUE, TRUE)
                          ELSE Raise(nb)} :
                    /\ nb' = r.db
                    /\ cloud' = IF r.raised
                                THEN [cloud EXCEPT !.ports[inflight.port.id] = NoneRec]
                                ELSE cloud
                    /\ last' = [op |-> "create_port",
                                args |-> [port |-> inflight.port,
                                          attempts |-> inflight.attempts],
                                raised |-> r.raised, txns |-> r.txns,
                                clean |-> last.clean]
                    /\ inflight' = NoneRec

RetryDeletePort ==
    \E id \in PortIds :
        /\ inflight = NoneRec
        /\ cloud.ports[id] # NoneRec
        /\ Done("delete_port", [port |-> cloud.ports[id]],
                InCloud(delete_port(nb, cloud.ports[id], TRUE),
                        [cloud EXCEPT !.ports[id] = NoneRec]))

NextRetry ==
    \/ RetryCreateNetwork
    \/ RetryReplicate
    \/ RetryDeleteNetwork
    \/ RetryCreatePort
    \/ RetryCheck
    \/ RetryDeletePort

\* A create_port that was called goes on: its thread is not held up for
\* ever.  Nothing says when the row of another process arrives.
SpecRetry == Init /\ [][NextRetry]_vars /\ WF_vars(RetryCheck)

\* The switch of the port of the create_port under way is in this
\* process's copy of the database.
InflightSwitchVisible ==
    inflight # NoneRec /\ SwitchVisible(nb, ovn_name(inflight.port.network_id))

\* C19: create_port opens the transaction with the logical switch port only
\* at a try of the existence check that found the logical switch
\* neutron-<network_id>; it gives up only at the last try of the bound; and
\* once the switch, created by another process, is visible to a create_port
\* that is still trying, the create_port goes on to its transaction and
\* returns with the port created.
C19_PortWaitsForSwitch ==
    /\ [][(inflight # NoneRec /\ inflight' = NoneRec) =>
            /\ last'.txns # <<>> => InflightSwitchVisible
            /\ last'.raised => /\ ~InflightSwitchVisible
                               /\ inflight.attempts + 1 = MaxAttempts
                               /\ last'.txns = <<>>]_vars
    /\ InflightSwitchVisible
           ~> (/\ last.op = "create_port" /\ ~last.raised
               /\ last.args.port.id \in DOMAIN nb.lsps)

\* A create_port that did not find the switch of another process at its
\* first try, found it later and created the port.
C19_Witness_FoundAfterRetry ==
    /\ last.op = "create_port" /\ ~last.raised
    /\ last.args.attempts >= 1
    /\ last.args.port.id \in DOMAIN nb.lsps
    /\ nb.lsps[last.args.port.id].lswitch = ovn_name(last.args.port.network_id)

(***************************************************************************)
(* SNAT rules and router interfaces.                                       *)
(***************************************************************************)
\* The rules of a NAT table that are not snat rules of the networks nets.
RulesBeside(rules, nets) ==
    SelectSeq(rules, LAMBDA rule : ~(rule.type = "snat" /\ rule.logical_ip \in nets))

\* The IPv4 cidrs of the subnets attached to a router.
AttachedV4Cidrs(router_id) ==
    {Subnets[s].cidr : s \in {x \in SubnetsOfRouter(cloud, router_id) :
                                 Subnets[x].ip_version = 4}}

\* C5: update_nat_rules, and the SNAT step of add_router_interface and of
\* remove_router_interface, touch only the snat rules of the networks they
\* are given (the IPv4 cidr of the interface's subnet; the router's IPv4
\* networks when enable_snat is switched): the NAT tables of other routers,
\* and on this router the dnat_and_snat rules and the snat rules of other
\* networks, are the same before and after.
C5_OnlyGivenSnatRulesTouched ==
    [][(last'.op \in InterfaceOps \/ SnatFlipped') =>
          LET lrouter == ovn_name(last'.args.router_id)
              subnet == Subnets[last'.args.subnet_id]
              nets == IF last'.op \notin InterfaceOps THEN LastNetworks'
                      ELSE IF subnet.ip_version = 4 THEN {subnet.cidr} ELSE {}
          IN /\ \A lr \in DOMAIN nb.lrouters \ {lrouter} :
                    /\ lr \in DOMAIN nb'.lrouters
                    /\ NatOf(nb', lr) = NatOf(nb, lr)
             /\ lrouter \in DOMAIN nb.lrouters =>
                    /\ lrouter \in DOMAIN nb'.lrouters
                    /\ RulesBeside(NatOf(nb', lrouter), nets)
                           = RulesBeside(NatOf(nb, lrouter), nets)]_vars

\* An interface was removed and its snat rule deleted while the router held
\* a floating IP's rule and the snat rule of another network, and another
\* router held a snat rule.
C5_Witness_RuleDeletedAmongOthers ==
    /\ last.op = "l3_remove_router_interface"
    /\ ~last.raised
    /\ \E i \in 1..Len(last.txns) :
           /\ last.txns[i].committed
           /\ last.txns[i].cmds[1].cmd = "delete_nat_rule_in_lrouter"
    /\ LET rules == NatOf(nb, ovn_name(last.args.router_id))
       IN /\ \E i \in 1..Len(rules) : rules[i].type = "dnat_and_snat"
          /\ \E i \in 1..Len(rules) : rules[i].type = "snat"
    /\ \E lr \in DOMAIN nb.lrouters \ {ovn_name(last.args.router_id)} :
           \E i \in 1..Len(NatOf(nb, lr)) : NatOf(nb, lr)[i].type = "snat"

\* C6: a router with a gateway and SNAT enabled that has seen, since its
\* creation, only add_router_interface and remove_router_interface calls
\* that returned has exactly one snat rule for each IPv4 cidr attached to
\* it and no other snat rule, and the external IP of each is the router's
\* first external fixed IP on an IPv4 subnet.
C6_SnatRulesMatchInterfaces ==
    \A router_id \in Routers :
        (/\ cloud.routers[router_id] # NoneRec
         /\ cloud.routers[router_id].gw # NoneRec
         /\ cloud.routers[router_id].gw.enable_snat
         /\ last.clean[router_id]) =>
            LET rules == NatOf(nb, ovn_name(router_id))
                ips == cloud.routers[router_id].gw.external_fixed_ips
                first_v4 == CHOOSE i \in 1..Len(ips) :
                                /\ Subnets[ips[i].subnet_id].ip_version = 4
                                /\ \A j \in 1..(i - 1) :
                                       Subnets[ips[j].subnet_id].ip_version # 4
            IN /\ \A cidr \in AttachedV4Cidrs(router_id) :
                      Cardinality(SnatRules(rules, {cidr})) = 1
               /\ \A i \in 1..Len(rules) :
                      rules[i].type = "snat" =>
                          /\ rules[i].logical_ip \in AttachedV4Cidrs(router_id)
                          /\ rules[i].external_ip = ips[first_v4].ip_address

\* A router whose gateway has an IPv6 fixed IP before its IPv4 one keeps the
\* snat rule of one network after the interface of another was removed.
C6_Witness_AfterRemoval ==
    /\ last.op = "l3_remove_router_interface"
    /\ ~last.raised
    /\ last.clean[last.args.router_id]
    /\ Subnets[last.args.subnet_id].ip_version = 4
    /\ cloud.routers[last.args.router_id].gw = ExtGw(<<"e6", "e4">>, TRUE)
    /\ AttachedV4Cidrs(last.args.router_id) # {}
    /\ SnatRules(NatOf(nb, ovn_name(last.args.router_id)),
                 AttachedV4Cidrs(last.args.router_id)) # {}

(***************************************************************************)
(* Ports with a binding profile: create_port, update_port and delete_port  *)
(* of one port on a network whose subnet comes and goes.                   *)
(***************************************************************************)
StrValue(value) == ProfileValue("str", value, 0)

IntValue(value) == ProfileValue("int", "", value)

VtepProfile(physical, logical) ==
    ("vtep-physical-switch" :> physical) @@ ("vtep-logical-switch" :> logical)

ParentProfile(parent_name, tag) == ("parent_name" :> parent_name) @@ ("tag" :> tag)

\* Profiles that name a whole parameter set, with values of the right type.
WholeProfiles ==
    {VtepProfile(StrValue("ps1"), StrValue("ls1"))}
    \cup {ParentProfile(StrValue("p1"), IntValue(tag)) : tag \in {-1, 0, 4095, 4096}}

\* Profiles with a key of a parameter set that leave out another key of
\* it, add a key to it, or give a key a value of another type.
BrokenProfiles ==
    {"vtep-physical-switch" :> StrValue("ps1"), "vtep-logical-switch" :> StrValue("ls1"),
     "parent_name" :> StrValue("p1"), "tag" :> IntValue(5),
     VtepProfile(StrValue("ps1"), StrValue("ls1")) @@ ("foo" :> StrValue("bar")),
     ParentProfile(StrValue("p1"), IntValue(5)) @@ ("foo" :> StrValue("bar")),
     VtepProfile(StrValue("ps1"), StrValue("ls1")) @@ ("tag" :> IntValue(5)),
     VtepProfile(IntValue(7), StrValue("ls1")), VtepProfile(StrValue("ps1"), IntValue(7)),
     ParentProfile(IntValue(7), IntValue(5)), ParentProfile(StrValue("p1"), StrValue("5"))}

\* A profile of keys no parameter set has.
ForeignProfiles == {"foo" :> StrValue("bar")}

ProfilePorts ==
    LET plain == {PortDict("p1", "compute:nova", fixed_ips, <<>>, <<>>) :
                     fixed_ips \in {<<>>, <<[subnet_id |-> "s1", ip_address |-> "10.1"]>>}}
    IN plain \cup {[binding_profile |-> profile] @@ port :
                      profile \in WholeProfiles \cup BrokenProfiles \cup ForeignProfiles,
                      port \in plain}

ProfCreateSubnet ==
    /\ cloud.subnets["s1"] = NoneRec
    /\ RoomForDhcp(1)
    /\ \E held \in {[enable_dhcp |-> TRUE, dns_nameservers |-> <<>>]} :
           Done("create_subnet", [subnet_id |-> "s1", subnet |-> held],
                InCloud(create_subnet(nb, SubnetDict("s1", held), PortNetwork,
                                      RandomMac, TRUE),
                        [cloud EXCEPT !.subnets["s1"] = held]))

ProfDeleteSubnet ==
    /\ cloud.subnets["s1"] # NoneRec
    /\ get_ports(cloud, "s1") = <<>>
    /\ Done("delete_subnet", [subnet_id |-> "s1"],
            InCloud(delete_subnet(nb, "s1", TRUE),
                    [cloud EXCEPT !.subnets["s1"] = NoneRec]))

\* The attributes the operation computed, when it got that far.
PortInfoOf(db, port) ==
    IF validate_and_get_data_from_binding_profile(port).raised THEN NoneRec
    ELSE _get_port_options(db, port)

\* Neutron keeps the port when the operation returns.
ProfCreatePort ==
    \E port \in ProfilePorts :
        /\ cloud.ports[port.id] = NoneRec
        /\ Addressable(cloud, port)
        /\ \E r \in {create_port(nb, port, TRUE, TRUE)} :
               Done("create_port", [port |-> port, port_info |-> PortInfoOf(nb, port)],
                    InCloud(r, IF r.raised THEN cloud
                               ELSE [cloud EXCEPT !.ports[port.id] = port]))

ProfUpdatePort ==
    \E port \in ProfilePorts :
        /\ cloud.ports[port.id] \notin {NoneRec, port}
        /\ Addressable(cloud, port)
        /\ \E r \in {update_port(nb, port, cloud.ports[port.id], TRUE, TRUE)} :
               Done("update_port", [port |-> port, port_info |-> PortInfoOf(nb, port)],
                    InCloud(r, IF r.raised THEN cloud
                               ELSE [cloud EXCEPT !.ports[port.id] = port]))

ProfDeletePort ==
    \E id \in PortIds :
        /\ cloud.ports[id] # NoneRec
        /\ Done("delete_port", [port |-> cloud.ports[id]],
                InCloud(delete_port(nb, cloud.ports[id], TRUE),
                        [cloud EXCEPT !.ports[id] = NoneRec]))

NextProfile ==
    \/ ProfCreateSubnet
    \/ ProfDeleteSubnet
    \/ ProfCreatePort
    \/ ProfUpdatePort
    \/ ProfDeletePort

SpecProfile == InitPorts /\ [][NextProfile]_vars

IsVtepPort(port) == "vtep-physical-switch" \in DOMAIN BindingProfile(port)

\* C22: the attributes create_port and update_port build for a port whose
\* binding profile declares a VTEP physical and logical switch are type
\* vtep, the one address unknown, no port security, no parent name, no tag
\* and no DHCPv4 or DHCPv6 options, whatever fixed IPs the port has.
C22_VtepPortAttributes ==
    (/\ last.op \in {"create_port", "update_port"}
     /\ ~last.raised
     /\ IsVtepPort(last.args.port))
        => /\ last.args.port_info.type = "vtep"
           /\ last.args.port_info.addresses = <<<<"unknown">>>>
           /\ last.args.port_info.port_security = {}
           /\ last.args.port_info.parent_name = <<>>
           /\ last.args.port_info.tag = <<>>
           /\ last.args.port_info.dhcpv4_options = NoneRec
           /\ last.args.port_info.dhcpv6_options = NoneRec

\* A profile that holds a key of a parameter set and leaves out another
\* key of the set, holds a key the set has not, gives a key of the set a
\* value of another type, or has a tag outside 0..4095.
InvalidProfile(profile) ==
    \E i \in DOMAIN OVN_PORT_BINDING_PROFILE_PARAMS :
        LET param_set == OVN_PORT_BINDING_PROFILE_PARAMS[i]
        IN /\ DOMAIN param_set \cap DOMAIN profile # {}
           /\ \/ ~(DOMAIN param_set \subseteq DOMAIN profile)
              \/ ~(DOMAIN profile \subseteq DOMAIN param_set)
              \/ \E k \in DOMAIN param_set \cap DOMAIN profile :
                     profile[k].type # param_set[k]
              \/ /\ "tag" \in DOMAIN profile
                 /\ profile["tag"].type = "int"
                 /\ (profile["tag"].int < 0 \/ profile["tag"].int > 4095)

\* C29: create_port and update_port of a port whose binding profile is
\* invalid (a parameter set partly supplied, extra parameters, a value of
\* the wrong type, a tag outside 0..4095) raise before any command is
\* sent: no transaction is opened and the database is as it was.
C29_InvalidProfileRejected ==
    [][(/\ last'.op \in {"create_port", "update_port"}
        /\ InvalidProfile(BindingProfile(last'.args.port)))
           => /\ last'.raised
              /\ last'.txns = <<>>
              /\ nb' = nb]_vars

\* update_port refused a tag beyond 4095 for a port the database holds.
C29_Witness_TagOutOfRange ==
    /\ last.op = "update_port"
    /\ last.raised
    /\ "tag" \in DOMAIN BindingProfile(last.args.port)
    /\ BindingProfile(last.args.port)["tag"].int = 4096
    /\ BindingProfile(last.args.port)["parent_name"].str \in DOMAIN nb.lsps

(***************************************************************************)
(* _get_allowed_addresses_from_port, applied to ports with up to MaxPairs  *)
(* allowed address pairs and to the same port with its pairs in another    *)
(* order.  An entry "mac ip ip" is the sequence of its words.              *)
(***************************************************************************)
MaxPairs == 2

OwnMac == "fa:16:3e:00:00:02"

AddressPairs ==
    {[mac_address |-> OwnMac, ip_address |-> "10.7"],
     [mac_address |-> OwnMac, ip_address |-> "10.8"],
     [mac_address |-> "fa:16:3e:00:00:09", ip_address |-> "10.9"]}

SeqsUpTo(S, n) == UNION {[1..k -> S] : k \in 0..n}

AllowedPorts ==
    {[PortDict("p1", device_owner, fixed_ips, <<>>, <<>>)
         EXCEPT !.allowed_address_pairs = pairs, !.port_security_enabled = enabled] :
        device_owner \in {"compute:nova", "network:dhcp"},
        fixed_ips \in {<<>>, <<[subnet_id |-> "s1", ip_address |-> "10.1"]>>},
        pairs \in SeqsUpTo(AddressPairs, MaxPairs),
        enabled \in BOOLEAN}

\* The orders a sequence can be put in.
Reordered(seq) ==
    {[i \in DOMAIN seq |-> seq[f[i]]] : f \in Permutations(DOMAIN seq)}

InitAllowed ==
    /\ nb = EmptyNb
    /\ cloud = InitCloud
    /\ last = [op |-> "init", args |-> NoneRec, raised |-> FALSE, txns |-> <<>>,
               clean |-> [r \in Routers |-> FALSE]]
    /\ \E port \in AllowedPorts :
           \E pairs \in Reordered(port.allowed_address_pairs) :
               inflight = [port |-> port,
                           reordered |-> [port EXCEPT !.allowed_address_pairs = pairs]]

AllowedCompute ==
    /\ last.op = "init"
    /\ last' = [last EXCEPT
                   !.op = "_get_allowed_addresses_from_port",
                   !.args = [port |-> inflight.port,
                             port_security |->
                                 _get_allowed_addresses_from_port(inflight.port),
                             reordered |->
                                 _get_allowed_addresses_from_port(inflight.reordered)]]
    /\ UNCHANGED <<nb, cloud, inflight>>

NextAllowed == AllowedCompute

SpecAllowed == InitAllowed /\ [][NextAllowed]_vars

\* C23: the port security entries of a port are the same set whatever
\* order its allowed address pairs come in, pairs of the port's own MAC
\* included.
C23_PairOrderIrrelevant ==
    last.op = "_get_allowed_addresses_from_port"
        => last.args.reordered = last.args.port_security

\* The entries of other MACs than mac.
OtherMacEntries(port) ==
    {<<port.allowed_address_pairs[i].mac_address, port.allowed_address_pairs[i].ip_address>> :
        i \in {j \in 1..Len(port.allowed_address_pairs) :
                  port.allowed_address_pairs[j].mac_address # port.mac_address}}

\* The addresses the port's own entry must hold.
OwnAddresses(port) ==
    {port.fixed_ips[i].ip_address : i \in 1..Len(port.fixed_ips)}
    \cup {port.allowed_address_pairs[i].ip_address :
             i \in {j \in 1..Len(port.allowed_address_pairs) :
                       port.allowed_address_pairs[j].mac_address = port.mac_address}}

\* C24: no entry when port security is disabled or the port is trusted;
\* otherwise exactly one entry that starts with the port's MAC, holding the
\* fixed IPs and the IPs of the pairs of that MAC, and besides it one
\* "MAC IP" entry for each pair of another MAC and nothing else.
C24_AllowedAddresses ==
    last.op = "_get_allowed_addresses_from_port"
        => LET port == last.args.port
               entries == last.args.port_security
               own == {e \in entries : e[1] = port.mac_address}
           IN IF ~port.port_security_enabled \/ is_lsp_trusted(port)
              THEN entries = {}
              ELSE /\ Cardinality(own) = 1
                   /\ \A e \in own : {e[i] : i \in 2..Len(e)} = OwnAddresses(port)
                   /\ entries \ own = OtherMacEntries(port)

\* A port with a pair of its own MAC and a pair of another MAC.
C24_Witness_BothKindsOfPair ==
    /\ last.op = "_get_allowed_addresses_from_port"
    /\ Cardinality(last.args.port_security) = 2
    /\ OwnAddresses(last.args.port) = {"10.1", "10.7"}
    /\ OtherMacEntries(last.args.port) # {}

(***************************************************************************)
(* _get_ovn_dhcp_options, applied twice to a subnet, its network and the   *)
(* metadata port's IP, with no server MAC given.  get_random_mac gives     *)
(* each call a MAC of its own choosing.                                    *)
(***************************************************************************)
MaxHostRoutes == 2

RandomMacs == {RandomMac, "fa:16:3e:00:00:03"}

HostRoutes ==
    {[destination |-> "h1/24", nexthop |-> "10.5"],
     [destination |-> "h2/24", nexthop |-> "10.6"]}

OptionSubnets ==
    {[SubnetDict("s1", [enable_dhcp |-> enable_dhcp, dns_nameservers |-> dns])
         EXCEPT !.host_routes = host_routes, !.gateway_ip = gateway_ip] :
        enable_dhcp \in BOOLEAN, dns \in {<<>>, <<"d1">>},
        host_routes \in SeqsUpTo(HostRoutes, MaxHostRoutes),
        gateway_ip \in {None, "a1"}}
    \cup {[SubnetDict("s6", [enable_dhcp |-> enable_dhcp, dns_nameservers |-> dns])
             EXCEPT !.ipv6_address_mode = mode] :
             enable_dhcp \in BOOLEAN, dns \in {<<>>, <<"d1">>},
             mode \in {"dhcpv6-stateful", "dhcpv6-stateless", "slaac"}}

InitOptions ==
    /\ nb = EmptyNb
    /\ cloud = InitCloud
    /\ last = [op |-> "init", args |-> NoneRec, raised |-> FALSE, txns |-> <<>>,
               clean |-> [r \in Routers |-> FALSE]]
    /\ \E subnet \in OptionSubnets :
           \E metadata_port_ip \in {None, "10.2"} :
               inflight = [subnet |-> subnet, network |-> PortNetwork,
                           metadata_port_ip |-> metadata_port_ip]

OptionsCompute ==
    /\ last.op = "init"
    /\ \E random_mac \in RandomMacs :
           last' = [last EXCEPT
                       !.op = "_get_ovn_dhcp_options",
                       !.args = [results |->
                                    <<_get_ovn_dhcp_options(inflight.subnet, inflight.network,
                                          None, inflight.metadata_port_ip, random_mac)>>]]
    /\ UNCHANGED <<nb, cloud, inflight>>

OptionsRecompute ==
    /\ last.op = "_get_ovn_dhcp_options"
    /\ Len(last.args.results) = 1
    /\ \E random_mac \in RandomMacs :
           last' = [last EXCEPT
                       !.args = [results |-> Append(last.args.results,
                                    _get_ovn_dhcp_options(inflight.subnet, inflight.network,
                                          None, inflight.metadata_port_ip, random_mac))]]
    /\ UNCHANGED <<nb, cloud, inflight>>

NextOptions ==
    \/ OptionsCompute
    \/ OptionsRecompute

SpecOptions == InitOptions /\ [][NextOptions]_vars

\* C25: the DHCP options of a subnet computed twice for the same subnet,
\* network and metadata port IP, with no server MAC given, are the same
\* option map, server_mac (IPv4) and server_id (IPv6) included.
C25_OptionsRecomputedAlike ==
    (last.op = "_get_ovn_dhcp_options" /\ Len(last.args.results) = 2)
        => last.args.results[1] = last.args.results[2]

\* The entries the classless_static_route option must hold, in order.
ExpectedRoutes(subnet, metadata_port_ip) ==
    [i \in 1..(Len(subnet.host_routes) + 1 + (IF metadata_port_ip # None THEN 1 ELSE 0)) |->
        IF metadata_port_ip # None /\ i = 1
        THEN <<"169.254.169.254/32", metadata_port_ip>>
        ELSE LET k == IF metadata_port_ip # None THEN i - 1 ELSE i
             IN IF k <= Len(subnet.host_routes)
                THEN <<subnet.host_routes[k].destination, subnet.host_routes[k].nexthop>>
                ELSE <<"0.0.0.0/0", subnet.gateway_ip>>]

\* C27: for an IPv4 subnet with a gateway IP the options hold
\* classless_static_route exactly when a metadata port IP is given or the
\* subnet has a host route; its entries are the metadata route (if any),
\* the host routes in subnet order and the default route via the gateway;
\* router is the gateway in both cases.
C27_ClasslessStaticRoute ==
    (/\ last.op = "_get_ovn_dhcp_options"
     /\ inflight.subnet.ip_version = 4
     /\ inflight.subnet.enable_dhcp
     /\ inflight.subnet.gateway_ip # None)
        => \A i \in 1..Len(last.args.results) :
               LET options == last.args.results[i].options
               IN /\ options.router = inflight.subnet.gateway_ip
                  /\ "classless_static_route" \in DOMAIN options
                         <=> (\/ inflight.metadata_port_ip # None
                              \/ inflight.subnet.host_routes # <<>>)
                  /\ "classless_static_route" \in DOMAIN options
                         => options.classless_static_route
                                = ExpectedRoutes(inflight.subnet, inflight.metadata_port_ip)

\* A subnet with two host routes and a metadata port.
C27_Witness_MetadataAndHostRoutes ==
    /\ last.op = "_get_ovn_dhcp_options"
    /\ inflight.subnet.ip_version = 4
    /\ inflight.subnet.enable_dhcp
    /\ inflight.subnet.gateway_ip # None
    /\ inflight.metadata_port_ip # None
    /\ Len(inflight.subnet.host_routes) = 2
    /\ inflight.subnet.host_routes[1] # inflight.subnet.host_routes[2]
    /\ Len(last.args.results[1].options.classless_static_route) = 4

(***************************************************************************)
(* _get_subnet_dhcp_options_for_port, applied to a port with addresses on  *)
(* two IPv6 subnets and a database whose DHCP_Options rows were made in    *)
(* any order.                                                              *)
(***************************************************************************)
MaxRows == 3

\* A row of DHCP_Options short of its uuid: of subnet s6 or s7, stateful or
\* stateless, of another subnet, or of a port of s6.
RowKinds ==
    {[cidr |-> "n6/64", options |-> options,
      external_ids |-> [subnet_id |-> subnet_id, port_id |-> None]] :
        subnet_id \in {"s6", "s7", "s9"},
        options \in {[server_id |-> RandomMac],
                     [server_id |-> RandomMac, dhcpv6_stateless |-> "true"]}}
    \cup {[cidr |-> "n6/64", options |-> [server_id |-> RandomMac],
           external_ids |-> [subnet_id |-> "s6", port_id |-> "p1"]]}

\* Tables of up to MaxRows rows, at most one row for a subnet itself.
RowTables ==
    {rows \in UNION {[1..k -> RowKinds] : k \in 0..MaxRows} :
        \A i, j \in DOMAIN rows :
            (/\ i # j
             /\ rows[i].external_ids.port_id = None
             /\ rows[j].external_ids.port_id = None)
                => rows[i].external_ids.subnet_id # rows[j].external_ids.subnet_id}

RowPorts ==
    {PortDict("p1", "compute:nova", fixed_ips, <<>>, <<>>) :
        fixed_ips \in {<<[subnet_id |-> "s1", ip_address |-> "10.1"],
                         [subnet_id |-> "s6", ip_address |-> "fd::1"],
                         [subnet_id |-> "s7", ip_address |-> "fd::2"]>>,
                       <<[subnet_id |-> "s7", ip_address |-> "fd::2"]>>}}

InitRows ==
    /\ \E rows \in RowTables :
           nb = [EmptyNb EXCEPT
                    !.dhcp = {[uuid |-> i] @@ rows[i] : i \in DOMAIN rows},
                    !.dhcp_made = Len(rows)]
    /\ cloud = InitCloud
    /\ last = [op |-> "init", args |-> NoneRec, raised |-> FALSE, txns |-> <<>>,
               clean |-> [r \in Routers |-> FALSE]]
    /\ \E port \in RowPorts : inflight = [port |-> port]

RowsSelect ==
    /\ last.op = "init"
    /\ last' = [last EXCEPT
                   !.op = "_get_subnet_dhcp_options_for_port",
                   !.args = [row |-> _get_subnet_dhcp_options_for_port(
                                         nb, inflight.port, 6)]]
    /\ UNCHANGED <<nb, cloud, inflight>>

NextRows == RowsSelect

SpecRows == InitRows /\ [][NextRows]_vars

\* The rows of the subnets the port has an IPv6 address on.
MatchingRows ==
    {row \in nb.dhcp :
        /\ row.external_ids.port_id = None
        /\ \E i \in 1..Len(inflight.port.fixed_ips) :
               /\ IpVersion(inflight.port.fixed_ips[i].ip_address) = 6
               /\ inflight.port.fixed_ips[i].subnet_id = row.external_ids.subnet_id}

IsStateless(row) ==
    /\ "dhcpv6_stateless" \in DOMAIN row.options
    /\ row.options.dhcpv6_stateless = "true"

\* C26: of the subnet rows that match a port's IPv6 addresses the one
\* returned is a stateful row whenever there is one, wherever it stands
\* among the rows; a stateless row only when all are stateless; none when
\* no row matches.
C26_StatefulRowPreferred ==
    last.op = "_get_subnet_dhcp_options_for_port"
        => IF MatchingRows = {} THEN last.args.row = NoneRec
           ELSE /\ last.args.row \in MatchingRows
                /\ (\E row \in MatchingRows : ~IsStateless(row))
                       => ~IsStateless(last.args.row)

\* The stateful row came after a stateless one.
C26_Witness_StatefulAfterStateless ==
    /\ last.op = "_get_subnet_dhcp_options_for_port"
    /\ last.args.row # NoneRec
    /\ ~IsStateless(last.args.row)
    /\ \E row \in MatchingRows : IsStateless(row) /\ row.uuid < last.args.row.uuid

(***************************************************************************)
(* Subnets of every kind: create_subnet, update_subnet and delete_subnet   *)
(* of the IPv4 subnet s1 and of the IPv6 subnet s6, which is made          *)
(* stateful, stateless or SLAAC, with the ports of the network created and *)
(* deleted in between.  Every transaction commits.                         *)
(***************************************************************************)
\* What Neutron holds of a subnet: the address mode is set when the subnet
\* is made and cannot be updated.
SubnetHeld(subnet_id) ==
    {[enable_dhcp |-> enable_dhcp, dns_nameservers |-> dns, ipv6_address_mode |-> mode] :
        enable_dhcp \in BOOLEAN, dns \in {<<>>, <<"d1">>},
        mode \in IF Subnets[subnet_id].ip_version = 6
                 THEN {"dhcpv6-stateful", "dhcpv6-stateless", "slaac"} ELSE {None}}

SubnetOf(subnet_id, held) ==
    [SubnetDict(subnet_id, held) EXCEPT !.ipv6_address_mode = held.ipv6_address_mode]

SubnetPorts ==
    {PortDict("p1", "compute:nova", fixed_ips, e, <<>>) :
        fixed_ips \in {<<[subnet_id |-> "s1", ip_address |-> "10.1"]>>,
                       <<[subnet_id |-> "s6", ip_address |-> "fd::1"]>>,
                       <<[subnet_id |-> "s1", ip_address |-> "10.1"],
                         [subnet_id |-> "s6", ip_address |-> "fd::1"]>>},
        e \in {<<>>, <<Edo(4, "mtu", "1400"), Edo(6, "dns-server", "{d9}")>>}}

SubCreateSubnet ==
    \E subnet_id \in PortSubnets :
        \E held \in SubnetHeld(subnet_id) :
            /\ cloud.subnets[subnet_id] = NoneRec
            /\ RoomForDhcp(1)
            /\ Done("create_subnet", [subnet_id |-> subnet_id, subnet |-> held],
                    InCloud(create_subnet(nb, SubnetOf(subnet_id, held), PortNetwork,
                                          RandomMac, TRUE),
                            [cloud EXCEPT !.subnets[subnet_id] = held]))

SubUpdateSubnet ==
    \E subnet_id \in PortSubnets :
        \E held \in SubnetHeld(subnet_id) :
            /\ cloud.subnets[subnet_id] # NoneRec
            /\ cloud.subnets[subnet_id] # held
            /\ cloud.subnets[subnet_id].ipv6_address_mode = held.ipv6_address_mode
            /\ RoomForDhcp(2)
            /\ Done("update_subnet", [subnet_id |-> subnet_id, subnet |-> held],
                    InCloud(update_subnet(nb, PortsOn(cloud, subnet_id),
                                SubnetOf(subnet_id, held),
                                SubnetOf(subnet_id, cloud.subnets[subnet_id]),
                                PortNetwork, RandomMac, <<TRUE, TRUE>>),
                            [cloud EXCEPT !.subnets[subnet_id] = held]))

SubDeleteSubnet ==
    \E subnet_id \in PortSubnets :
        /\ cloud.subnets[subnet_id] # NoneRec
        /\ get_ports(cloud, subnet_id) = <<>>
        /\ Done("delete_subnet", [subnet_id |-> subnet_id],
                InCloud(delete_subnet(nb, subnet_id, TRUE),
                        [cloud EXCEPT !.subnets[subnet_id] = NoneRec]))

SubCreatePort ==
    \E port \in SubnetPorts :
        /\ cloud.ports[port.id] = NoneRec
        /\ Addressable(cloud, port)
        /\ RoomForDhcp(2)
        /\ Done("create_port", [port |-> port],
                InCloud(create_port(nb, port, TRUE, TRUE),
                        [cloud EXCEPT !.ports[port.id] = port]))

SubDeletePort ==
    \E id \in PortIds :
        /\ cloud.ports[id] # NoneRec
        /\ Done("delete_port", [port |-> cloud.ports[id]],
                InCloud(delete_port(nb, cloud.ports[id], TRUE),
                        [cloud EXCEPT !.ports[id] = NoneRec]))

NextSubnet ==
    \/ SubCreateSubnet
    \/ SubUpdateSubnet
    \/ SubDeleteSubnet
    \/ SubCreatePort
    \/ SubDeletePort

SpecSubnet == InitPorts /\ [][NextSubnet]_vars

\* The subnet exists, has DHCP enabled and is not an IPv6 SLAAC subnet.
ServesDhcp(subnet_id) ==
    /\ cloud.subnets[subnet_id] # NoneRec
    /\ cloud.subnets[subnet_id].enable_dhcp
    /\ ~(/\ Subnets[subnet_id].ip_version = 6
         /\ cloud.subnets[subnet_id].ipv6_address_mode = "slaac")

\* C28: after any sequence of create_subnet, update_subnet and
\* delete_subnet a subnet has a subnet-level DHCP_Options row exactly when
\* it exists, has DHCP enabled and is not IPv6 SLAAC; otherwise (a SLAAC
\* subnet, a deleted subnet, a subnet with DHCP disabled) no row, of the
\* subnet or of a port, carries its subnet id.
C28_RowIffDhcpServed ==
    \A subnet_id \in PortSubnets :
        /\ DhcpRows(nb, subnet_id, None) # {} <=> ServesDhcp(subnet_id)
        /\ ~ServesDhcp(subnet_id)
               => {row \in nb.dhcp : row.external_ids.subnet_id = subnet_id} = {}

\* DHCP was disabled on a subnet that had a row of its own and a row of a
\* port: update_subnet deleted both.
C28_Witness_DisabledWithPortRow ==
    /\ last.op = "update_subnet"
    /\ ~last.raised
    /\ ~cloud.subnets[last.args.subnet_id].enable_dhcp
    /\ Len(last.txns) = 1
    /\ Len(last.txns[1].cmds) = 2
    /\ \A i \in 1..2 : last.txns[1].cmds[i].cmd = "delete_dhcp_options"
    /\ cloud.subnets["s6"] # NoneRec
    /\ cloud.subnets["s6"].ipv6_address_mode = "slaac"
    /\ cloud.subnets["s6"].enable_dhcp

(***************************************************************************)
(* utils.py: the names, character by character.  An id is a string of hex  *)
(* digits and hyphens, as a UUID is; a name is the sequence of its         *)
(* characters.                                                             *)
(***************************************************************************)
MaxIdLen == 2

IdChars == {"a", "1", "-"}

Ids == UNION {[1..k -> IdChars] : k \in 1..MaxIdLen}

\* A router port named as a router is.
RouterPortNamedAsRouter(id) == <<"n", "e", "u", "t", "r", "o", "n", "-">> \o id

\* 'neutron-%s' % id
OvnNameText(id) == <<"n", "e", "u", "t", "r", "o", "n", "-">> \o id

\* 'lrp-%s' % id
LrouterPortNameText(id) == <<"l", "r", "p", "-">> \o id

\* constants.OVN_PROVNET_PORT_NAME_PREFIX + '%s' % network_id
ProvnetPortNameText(network_id) == <<"p", "r", "o", "v", "n", "e", "t", "-">> \o network_id

\* text.replace('-', '_')
Replaced(text) == [i \in DOMAIN text |-> IF text[i] = "-" THEN "_" ELSE text[i]]

\* ('as-%s-%s' % (ip_version, sg_id)).replace('-', '_')
AddrsetNameText(sg_id, ip_version) ==
    Replaced(<<"a", "s", "-">> \o ip_version \o <<"-">> \o sg_id)

Ip4 == <<"i", "p", "4">>

Ip6 == <<"i", "p", "6">>

\* What is named: a switch, a router, a router port or a provider port of
\* an id, or the address set of a security group and an IP version.
Named ==
    {[kind |-> kind, id |-> id, ip_version |-> <<>>] :
        kind \in {"switch", "router", "router port", "provider port"}, id \in Ids}
    \cup {[kind |-> "address set", id |-> id, ip_version |-> ip_version] :
             id \in Ids, ip_version \in {Ip4, Ip6}}

NameOf(x) ==
    CASE x.kind \in {"switch", "router"} -> OvnNameText(x.id)
      [] x.kind = "router port" -> LrouterPortNameText(x.id)
      [] x.kind = "provider port" -> ProvnetPortNameText(x.id)
      [] x.kind = "address set" -> AddrsetNameText(x.id, x.ip_version)

InitNames ==
    /\ nb = EmptyNb
    /\ cloud = InitCloud
    /\ last = [op |-> "init", args |-> NoneRec, raised |-> FALSE, txns |-> <<>>,
               clean |-> [r \in Routers |-> FALSE]]
    /\ \E a \in Named : \E b \in Named : inflight = [a |-> a, b |-> b]

\* The name of a, the name of b, and the name of a once more.
NamesCompute ==
    /\ last.op = "init"
    /\ last' = [last EXCEPT
                   !.op = "names",
                   !.args = [a |-> NameOf(inflight.a), b |-> NameOf(inflight.b),
                             again |-> NameOf(inflight.a)]]
    /\ UNCHANGED <<nb, cloud, inflight>>

NextNames == NamesCompute

SpecNames == InitNames /\ [][NextNames]_vars

\* The name is what it was, an address set's name has no '-', and the
\* ip4 and ip6 names of one group differ.
NamesWellFormed ==
    /\ last.args.again = last.args.a
    /\ inflight.a.kind = "address set" => "-" \notin Range(last.args.a)
    /\ (/\ inflight.a.kind = "address set"
        /\ inflight.b.kind = "address set"
        /\ inflight.a.id = inflight.b.id
        /\ inflight.a.ip_version # inflight.b.ip_version)
           => last.args.a # last.args.b

\* C30, as stated: the same id always gives the same name; the names of
\* two distinct (kind, id) pairs, kinds switch, router, router port and
\* provider port, and of two distinct (IP version, group) address-set
\* pairs are distinct; an address set's name has no '-' and the ip4 and
\* ip6 names of one group differ.
C30_NamesCollisionFree ==
    last.op = "names"
        => /\ NamesWellFormed
           /\ inflight.a # inflight.b => last.args.a # last.args.b

\* C30, amended: as above, except that the switch and the router of one
\* id have one name, neutron-<id>, each in the table of its kind.
C30_NamesDistinctPerTable ==
    last.op = "names"
        => /\ NamesWellFormed
           /\ (/\ inflight.a # inflight.b
               /\ ~(/\ {inflight.a.kind, inflight.b.kind} = {"switch", "router"}
                    /\ inflight.a.id = inflight.b.id))
                  => last.args.a # last.args.b
           /\ (/\ {inflight.a.kind, inflight.b.kind} = {"switch", "router"}
               /\ inflight.a.id = inflight.b.id)
                  => last.args.a = last.args.b

\* Two groups whose ids differ in a hyphen only, and the address sets of
\* the two IP versions of one group.
C30_Witness_HyphenatedGroups ==
    /\ last.op = "names"
    /\ inflight.a.kind = "address set"
    /\ inflight.b.kind = "address set"
    /\ inflight.a.id = <<"a", "-">>
    /\ inflight.b.id = <<"a", "1">>
    /\ inflight.a.ip_version # inflight.b.ip_version
    /\ last.args.a = <<"a", "s", "_", "i", "p", "4", "_", "a", "_">>

(***************************************************************************)
(* Security groups alone: create_security_group, update_security_group and *)
(* delete_security_group, each with a transaction that commits or fails.   *)
(* A call that raises leaves Neutron's group as it was.                    *)
(***************************************************************************)
GroupNames == {"web", "db", "cache"}

SgOps == {"create_security_group", "update_security_group", "delete_security_group"}

SgCreateSecurityGroup ==
    \E sg_id \in Range(SecurityGroups), name \in GroupNames, commit \in BOOLEAN :
        /\ cloud.security_groups[sg_id] = NoneRec
        /\ \E r \in {create_security_group(nb, [id |-> sg_id, name |-> name], commit)} :
               Done("create_security_group", [id |-> sg_id, name |-> name],
                    InCloud(r, IF r.raised THEN cloud
                               ELSE [cloud EXCEPT !.security_groups[sg_id] =
                                                      [name |-> name]]))

SgUpdateSecurityGroup ==
    \E sg_id \in Range(SecurityGroups), name \in GroupNames, commit \in BOOLEAN :
        /\ cloud.security_groups[sg_id] # NoneRec
        /\ \E r \in {update_security_group(nb, [id |-> sg_id, name |-> name], commit)} :
               Done("update_security_group", [id |-> sg_id, name |-> name],
                    InCloud(r, IF r.raised THEN cloud
                               ELSE [cloud EXCEPT !.security_groups[sg_id] =
                                                      [name |-> name]]))

SgDeleteSecurityGroup ==
    \E sg_id \in Range(SecurityGroups), commit \in BOOLEAN :
        /\ cloud.security_groups[sg_id] # NoneRec
        /\ \E r \in {delete_security_group(nb,
                         [id |-> sg_id, name |-> cloud.security_groups[sg_id].name],
                         commit)} :
               Done("delete_security_group",
                    [id |-> sg_id, name |-> cloud.security_groups[sg_id].name],
                    InCloud(r, IF r.raised THEN cloud
                               ELSE [cloud EXCEPT !.security_groups[sg_id] = NoneRec]))

NextSecGroup ==
    \/ SgCreateSecurityGroup
    \/ SgUpdateSecurityGroup
    \/ SgDeleteSecurityGroup

SpecSecGroup == Init /\ [][NextSecGroup]_vars

\* C31: the ip4 and the ip6 address set of a security group exist together
\* or not at all, and exist exactly when the group exists; each of
\* create_security_group, update_security_group and delete_security_group
\* opens one transaction that holds the command for ip4 and the command
\* for ip6.
C31_AddressSetsInPairs ==
    /\ \A sg_id \in Range(SecurityGroups) :
           /\ ovn_addrset_name(sg_id, "ip4") \in DOMAIN nb.asets
                  <=> ovn_addrset_name(sg_id, "ip6") \in DOMAIN nb.asets
           /\ ovn_addrset_name(sg_id, "ip4") \in DOMAIN nb.asets
                  <=> cloud.security_groups[sg_id] # NoneRec
    /\ last.op \in SgOps
           => /\ Len(last.txns) = 1
              /\ {last.txns[1].cmds[i].name : i \in 1..Len(last.txns[1].cmds)}
                     = {ovn_addrset_name(last.args.id, v) : v \in {"ip4", "ip6"}}

\* A group was deleted while the other stays with both its address sets.
C31_Witness_DeletedBesideAnother ==
    /\ last.op = "delete_security_group"
    /\ ~last.raised
    /\ cloud.security_groups[last.args.id] = NoneRec
    /\ \E sg_id \in Range(SecurityGroups) :
           /\ cloud.security_groups[sg_id] # NoneRec
           /\ ovn_addrset_name(sg_id, "ip6") \in DOMAIN nb.asets

(***************************************************************************)
(* Floating-IP associations in flight together.  Inside its with block an  *)
(* association reads the router's NAT rules and enqueues its commands; the *)
(* transaction commits when the block is left, and the blocks of two calls *)
(* can both have read before either commits.                               *)
(***************************************************************************)
\* The commands _update_floatingip enqueues for an association, chosen on
\* the NAT rules as they are read.
AssociateCommands(db, floatingip, router_id) ==
    <<[cmd |-> "delete_lswitch_port", lport_name |-> floatingip.fip_port_id,
       lswitch_name |-> ovn_name(floatingip.fip_net_id)],
      AssociateNatCommand(db, ovn_name(router_id), floatingip)>>

\* The with block up to its end: the rules are read, the commands enqueued.
FipRaceAssociate ==
    \E floatingip \in ClientFips, router_id \in FipRouters :
        /\ ovn_name(router_id) \in DOMAIN nb.lrouters
        /\ Len(Pending) < MaxPending
        /\ Len(NatOf(nb, ovn_name(router_id))) + Len(Pending) + 1 <= MaxNat
        /\ inflight' = [pending |-> Append(Pending,
                            [op |-> "create_floatingip", floatingip |-> floatingip,
                             router_id |-> router_id,
                             cmds |-> AssociateCommands(nb, floatingip, router_id)])]
        /\ UNCHANGED <<nb, cloud, last>>

\* The transaction of one of the calls in flight commits or fails.
FipRaceCommit ==
    \E i \in 1..Len(Pending), commit \in BOOLEAN :
        \E r \in {transaction(nb, Pending[i].cmds, commit)} :
            /\ nb' = r.db
            /\ last' = [op |-> Pending[i].op,
                        args |-> [floatingip |-> Pending[i].floatingip,
                                  router_id |-> Pending[i].router_id, associate |-> TRUE],
                        raised |-> r.raised, txns |-> r.txns, clean |-> last.clean]
            /\ inflight' = IF Len(Pending) = 1 THEN NoneRec
                           ELSE [pending |-> RemoveAt(Pending, i)]
            /\ UNCHANGED cloud

NextFipRace ==
    \/ FipRouterCreate
    \/ FipRaceAssociate
    \/ FipRaceCommit

SpecFipRace == Init /\ [][NextFipRace]_vars

\* C32: associations for one external IP on one router that run together,
\* each reading the router's NAT rules before its transaction commits,
\* never leave two dnat_and_snat rules with that external IP on the router.
C32_OneRuleUnderConcurrency ==
    \A lrouter \in DOMAIN nb.lrouters : \A e \in Range(FloatingIps) :
        Cardinality(FipRules(NatOf(nb, lrouter), e)) <= 1

(***************************************************************************)
(* A router whose gateway is moved between the external networks ext1 and  *)
(* ext2 by update_router, any transaction of which can fail.               *)
(***************************************************************************)
ReplaceGateways == {ExtGw(<<"e4">>, TRUE), ExtGw(<<"e4b">>, TRUE), ExtGw(<<"e6", "e4">>, TRUE)}

RpCreateRouter ==
    \E gw \in ReplaceGateways \cup {NoneRec} : L3CreateRouter("r1", gw, 0)

RpUpdateRouter ==
    \E gw \in ReplaceGateways \cup {NoneRec}, fail \in 0..4 : L3UpdateRouter("r1", gw, fail)

RpAddRouterInterface ==
    \E subnet_id \in {"s1", "s2"} : L3AddRouterInterface("r1", subnet_id, TRUE, 0)

RpRemoveRouterInterface ==
    \E subnet_id \in {"s1", "s2"} : L3RemoveRouterInterface("r1", subnet_id, 0)

NextReplace ==
    \/ RpCreateRouter
    \/ RpUpdateRouter
    \/ RpAddRouterInterface
    \/ RpRemoveRouterInterface

SpecReplace == Init /\ [][NextReplace]_vars

\* The last operation was an update_router that replaced the gateway: the
\* old one was deleted and a step of the addition of the new one failed.
ReplaceFailed ==
    /\ last.op = "l3_update_router"
    /\ last.raised
    /\ last.args.gw # NoneRec
    /\ last.args.original_gw # NoneRec
    /\ _check_external_ips_changed(last.args.original_gw, last.args.gw)
    /\ AnyAddStepFailed

\* The logical IPs of the snat rules of a logical router.
SnatNetworks(db, lrouter) ==
    {NatOf(db, lrouter)[i].logical_ip :
        i \in {j \in 1..Len(NatOf(db, lrouter)) : NatOf(db, lrouter)[j].type = "snat"}}

\* C33: when update_router fails while it replaces an external gateway
\* (the old gateway deleted, the addition of the new one failed and rolled
\* back), the router's gateway router port, static routes and SNAT rules
\* are what they were before the operation, as the Neutron router is, which
\* the plugin sets back to the original.
C33_FailedReplaceRestores ==
    [][ReplaceFailed'
           => /\ nb'.lrps = nb.lrps
              /\ RoutesOf(nb', ovn_name(last'.args.router_id))
                     = RoutesOf(nb, ovn_name(last'.args.router_id))
              /\ SnatNetworks(nb', ovn_name(last'.args.router_id))
                     = SnatNetworks(nb, ovn_name(last'.args.router_id))]_vars

(***************************************************************************)
(* update_router with a delta: the routes, the admin state and the name of *)
(* a router are changed, its gateway is left as it is.                     *)
(***************************************************************************)
DeltaRoutes ==
    {[destination |-> "d1/24", nexthop |-> "h1"], [destination |-> "d2/24", nexthop |-> "h2"]}

\* The lists of routes a request carries: none, one, and two in both orders.
RouteLists ==
    {R \in SeqsUpTo(DeltaRoutes, MaxRoutes) : \A i, j \in 1..Len(R) : i # j => R[i] # R[j]}

Deltas ==
    {[admin_state_up |-> a, name |-> n, routes |-> r] :
        a \in {<<>>, <<TRUE>>, <<FALSE>>},
        n \in {<<>>, <<"a">>, <<"b">>},
        r \in {<<>>} \cup {<<R>> : R \in RouteLists}}

\* self.update_router(context, id, {'router': delta}) of the plugin, the
\* gateway of the request being the one the router has.
L3UpdateRouterDelta(router_id, delta, fail) ==
    /\ cloud.routers[router_id] # NoneRec
    /\ Len(RoutesOf(nb, ovn_name(router_id))) < MaxRoutes
    /\ Done("l3_update_router",
            [router_id |-> router_id, gw |-> cloud.routers[router_id].gw,
             original_gw |-> cloud.routers[router_id].gw, delta |-> delta,
             original |-> get_router(cloud, router_id), fail |-> fail],
            l3_update_router(nb, cloud, router_id,
                             [gw |-> cloud.routers[router_id].gw, delta |-> delta],
                             UpdateCommits(fail)))

DlCreateRouter ==
    \E gw \in {NoneRec, ExtGw(<<"e4">>, TRUE)} : L3CreateRouter("r1", gw, 0)

DlUpdateRouter ==
    \E delta \in Deltas, fail \in {0, 7} : L3UpdateRouterDelta("r1", delta, fail)

DlDeleteRouter == L3DeleteRouter("r1", 0)

NextDelta ==
    \/ DlCreateRouter
    \/ DlUpdateRouter
    \/ DlDeleteRouter

SpecDelta == Init /\ [][NextDelta]_vars

\* The last operation was an update_router with a delta that succeeded.
DeltaApplied ==
    /\ last.op = "l3_update_router"
    /\ ~last.raised
    /\ "delta" \in DOMAIN last.args

\* The static routes of a logical router other than the default route, each
\* as (prefix, nexthop).
OtherRoutes(db, lrouter) ==
    {<<route.ip_prefix, route.nexthop>> :
        route \in {r \in Range(RoutesOf(db, lrouter)) : r.ip_prefix # "0.0.0.0/0"}}

\* C34: after a successful update_router whose delta carries the list of
\* routes R, the static routes of the logical router other than the default
\* route of the gateway are the routes of R, also when R is the empty list.
C34_RoutesEqualDelta ==
    (DeltaApplied /\ last.args.delta.routes # <<>>)
        => OtherRoutes(nb, ovn_name(last.args.router_id))
               = {<<route.destination, route.nexthop>> :
                     route \in Range(last.args.delta.routes[1])}

\* C35: after a successful update_router whose delta changes admin_state_up
\* or the name, the enabled column is the new admin_state_up, be it true or
\* false, and the router name external id is the new name; when neither
\* differs from the original no update of the logical router is written.
C35_AdminStateAndNameWritten ==
    DeltaApplied =>
        LET delta == last.args.delta
            original == last.args.original
            row == nb.lrouters[ovn_name(last.args.router_id)]
            enabledDiffers == delta.admin_state_up # <<>>
                              /\ delta.admin_state_up[1] # original.admin_state_up
            nameDiffers == delta.name # <<>> /\ delta.name[1] # original.name
        IN /\ enabledDiffers => row.enabled = delta.admin_state_up[1]
           /\ nameDiffers => row.external_ids = delta.name[1]
           /\ (~enabledDiffers /\ ~nameDiffers) => TxnsWith("update_lrouter") = {}

(***************************************************************************)
(* Interfaces under failure: router r1 has its gateway from its creation,  *)
(* subnets are attached to it and detached, and the environment may refuse *)
(* the port transaction or the SNAT transaction of an operation.           *)
(***************************************************************************)
AtCreateRouter ==
    \E gw \in {NoneRec, ExtGw(<<"e4">>, TRUE), ExtGw(<<"e4">>, FALSE)} :
        L3CreateRouter("r1", gw, 0)

AtAddRouterInterface ==
    \E subnet_id \in {"s1", "s6"}, same_obj \in BOOLEAN, fail \in 0..2 :
        L3AddRouterInterface("r1", subnet_id, same_obj, fail)

AtRemoveRouterInterface ==
    \E subnet_id \in {"s1", "s6"}, fail \in 0..2 :
        L3RemoveRouterInterface("r1", subnet_id, fail)

NextAttach ==
    \/ AtCreateRouter
    \/ AtAddRouterInterface
    \/ AtRemoveRouterInterface

SpecAttach == Init /\ [][NextAttach]_vars

\* The last operation was an add_router_interface whose SNAT update failed.
SnatOfAddFailed ==
    /\ last.op = "l3_add_router_interface"
    /\ \E i \in TxnsWith("add_nat_rule_in_lrouter") : ~last.txns[i].committed

PortHolding(cl, router_id, subnet_id) ==
    CHOOSE k \in DOMAIN cl.routers[router_id].ports :
        subnet_id \in Range(cl.routers[router_id].ports[k])

\* C37: after a remove_router_interface that returns, the logical router
\* port is in line with the Neutron port: when the port is still there its
\* networks column holds the fixed IPs it has left, when the port is gone
\* the logical router port is gone; and with a gateway and SNAT enabled
\* the snat rule of the cidr of a removed IPv4 subnet is deleted: the router
\* has one such rule less than before.
C37_RemovedInterfaceInLine ==
    [][(last'.op = "l3_remove_router_interface" /\ ~last'.raised)
           => LET router_id == last'.args.router_id
                  subnet_id == last'.args.subnet_id
                  key == PortHolding(cloud, router_id, subnet_id)
                  name == ovn_lrouter_port_name(<<router_id, key>>)
                  gw == cloud'.routers[router_id].gw
              IN /\ IF key \in DOMAIN cloud'.routers[router_id].ports
                    THEN /\ name \in DOMAIN nb'.lrps
                         /\ nb'.lrps[name].networks
                                = _get_networks_for_router_port(
                                      get_port(cloud', router_id, key).fixed_ips)
                    ELSE name \notin DOMAIN nb'.lrps
                 /\ (/\ gw # NoneRec
                     /\ gw.enable_snat
                     /\ Subnets[subnet_id].ip_version = 4)
                        => LET before == SnatRules(NatOf(nb, ovn_name(router_id)),
                                                   {Subnets[subnet_id].cidr})
                               after == SnatRules(NatOf(nb', ovn_name(router_id)),
                                                  {Subnets[subnet_id].cidr})
                           IN IF before = {} THEN after = {}
                              ELSE Cardinality(after) = Cardinality(before) - 1]_vars

\* An IPv4 subnet was taken off a port that keeps an IPv6 subnet, on a
\* router with SNAT: the port's networks were rewritten, the rule deleted.
C37_Witness_PortKept ==
    /\ last.op = "l3_remove_router_interface"
    /\ ~last.raised
    /\ Subnets[last.args.subnet_id].ip_version = 4
    /\ \E i \in TxnsWith("update_lrouter_port") : last.txns[i].committed
    /\ \E i \in TxnsWith("delete_nat_rule_in_lrouter") : last.txns[i].committed

(***************************************************************************)
(* Port operations that fail.  Subnet s1 serves DHCP, security group sg1   *)
(* has its address sets and sg2 may not have them; port p1 is created and  *)
(* updated with extra DHCP options and groups, and the environment may     *)
(* refuse the transaction.                                                 *)
(***************************************************************************)
AtomicPorts ==
    {PortDict("p1", "compute:nova", <<[subnet_id |-> "s1", ip_address |-> a]>>, e, g) :
        a \in {"10.1", "10.2"},
        e \in {<<>>, <<Edo(4, "mtu", "1400")>>},
        g \in {<<"sg1">>, <<"sg1", "sg2">>}}

AtomCreateSubnet ==
    \E held \in {[enable_dhcp |-> TRUE, dns_nameservers |-> <<>>]} :
        /\ cloud.subnets["s1"] = NoneRec
        /\ Done("create_subnet", [subnet_id |-> "s1", subnet |-> held],
                InCloud(create_subnet(nb, SubnetDict("s1", held), PortNetwork,
                                      RandomMac, TRUE),
                        [cloud EXCEPT !.subnets["s1"] = held]))

AtomCreateSecurityGroup ==
    \E sg_id \in Range(SecurityGroups) :
        /\ ovn_addrset_name(sg_id, "ip4") \notin DOMAIN nb.asets
        /\ Done("create_security_group", [id |-> sg_id],
                create_security_group(nb, [id |-> sg_id], TRUE))

\* On an exception Neutron drops the port it had made.
AtomCreatePort ==
    \E port \in AtomicPorts, commit \in BOOLEAN :
        /\ Addressable(cloud, port)
        /\ cloud.ports[port.id] = NoneRec
        /\ RoomForDhcp(1)
        /\ \E r \in {create_port(nb, port, commit, TRUE)} :
               Done("create_port", [port |-> port, original_port |-> NoneRec],
                    InCloud(r, IF r.raised THEN cloud
                               ELSE [cloud EXCEPT !.ports[port.id] = port]))

\* update_port of a port Neutron holds, and of one whose delete_port ran
\* between Neutron's update and the call of the client.
AtomUpdatePort ==
    \E port \in AtomicPorts, original_port \in AtomicPorts, commit \in BOOLEAN :
        /\ cloud.subnets["s1"] # NoneRec
        /\ port # original_port
        /\ cloud.ports[port.id] \in {NoneRec, original_port}
        /\ cloud.ports[port.id] = NoneRec => port.id \notin DOMAIN nb.lsps
        /\ RoomForDhcp(1)
        /\ \E r \in {update_port(nb, port, original_port, commit, TRUE)} :
               Done("update_port", [port |-> port, original_port |-> original_port],
                    InCloud(r, IF r.raised \/ cloud.ports[port.id] = NoneRec THEN cloud
                               ELSE [cloud EXCEPT !.ports[port.id] = port]))

AtomDeletePort ==
    /\ cloud.ports["p1"] # NoneRec
    /\ Done("delete_port", [port |-> cloud.ports["p1"]],
            InCloud(delete_port(nb, cloud.ports["p1"], TRUE),
                    [cloud EXCEPT !.ports["p1"] = NoneRec]))

NextAtomic ==
    \/ AtomCreateSubnet
    \/ AtomCreateSecurityGroup
    \/ AtomCreatePort
    \/ AtomUpdatePort
    \/ AtomDeletePort

SpecAtomic == InitPorts /\ [][NextAtomic]_vars

\* C38: create_port and update_port are all or nothing: when a command of
\* the operation fails, the operation raises, all its commands are in the
\* one transaction that did not commit, and the database is what it was
\* before: no logical switch port, no port DHCP options row, no ACL and no
\* change of an address set is left of it.
C38_PortOperationAllOrNothing ==
    [][(/\ last'.op \in {"create_port", "update_port"}
        /\ \E i \in 1..Len(last'.txns) : ~last'.txns[i].committed)
           => /\ last'.raised
              /\ Len(last'.txns) = 1
              /\ nb' = nb]_vars

\* create_port failed on the address set of the port's second group, with
\* the port's DHCP options row, its logical switch port, its ACLs and the
\* update of the first group's address set before it in the transaction.
C38_Witness_SecondGroupUnknown ==
    /\ last.op = "create_port"
    /\ last.raised
    /\ Len(last.txns) = 1
    /\ CmdsWith(last.txns[1], "add_dhcp_options") # {}
    /\ CmdsWith(last.txns[1], "add_acl") # {}
    /\ \E k \in CmdsWith(last.txns[1], "update_address_set") :
           last.txns[1].cmds[k].name \in DOMAIN nb.asets
    /\ \E k \in CmdsWith(last.txns[1], "update_address_set") :
           last.txns[1].cmds[k].name \notin DOMAIN nb.asets
    /\ "p1" \notin DOMAIN nb.lsps

(***************************************************************************)
(* Two ports of one security group that share an address: ports p1 and p2  *)
(* have a fixed IP of their own and the same virtual IP as allowed address *)
(* pair.  They are created, updated and deleted one operation after the    *)
(* other; every transaction commits.                                       *)
(***************************************************************************)
SharedPortIds == {"p1", "p2"}

SharedPorts ==
    {[PortDict(id, "compute:nova", <<[subnet_id |-> "s1", ip_address |-> f]>>, <<>>, g)
         EXCEPT !.allowed_address_pairs =
                    <<[mac_address |-> "fa:16:3e:00:00:09", ip_address |-> "10.9"]>>] :
        id \in SharedPortIds, f \in {"10.1", "10.2", "10.3"}, g \in {<<>>, <<"sg1">>}}

\* Neutron gives a fixed IP to one port at a time.
FixedIpFree(cl, port) ==
    \A id \in SharedPortIds \ {port.id} :
        cl.ports[id] # NoneRec => cl.ports[id].fixed_ips # port.fixed_ips

InitShared ==
    /\ nb = create_security_group(
                create_network(EmptyNb, [id |-> "netA", name |-> "n1"], None, None,
                               FALSE, TRUE).db,
                [id |-> "sg1"], TRUE).db
    /\ cloud = [InitCloud EXCEPT !.networks["netA"] =
                                     [name |-> "n1", physnet |-> None, segid |-> None],
                                 !.subnets["s1"] =
                                     [enable_dhcp |-> FALSE, dns_nameservers |-> <<>>],
                                 !.ports = [id \in SharedPortIds |-> NoneRec]]
    /\ last = [op |-> "init", args |-> NoneRec, raised |-> FALSE, txns |-> <<>>,
               clean |-> [r \in Routers |-> FALSE]]
    /\ inflight = NoneRec

ShCreatePort ==
    \E port \in SharedPorts :
        /\ cloud.ports[port.id] = NoneRec
        /\ FixedIpFree(cloud, port)
        /\ \E r \in {create_port(nb, port, TRUE, TRUE)} :
               Done("create_port", [port |-> port, original_port |-> NoneRec],
                    InCloud(r, IF r.raised THEN cloud
                               ELSE [cloud EXCEPT !.ports[port.id] = port]))

ShUpdatePort ==
    \E port \in SharedPorts :
        /\ cloud.ports[port.id] \notin {NoneRec, port}
        /\ FixedIpFree(cloud, port)
        /\ \E r \in {update_port(nb, port, cloud.ports[port.id], TRUE, TRUE)} :
               Done("update_port", [port |-> port, original_port |-> cloud.ports[port.id]],
                    InCloud(r, IF r.raised THEN cloud
                               ELSE [cloud EXCEPT !.ports[port.id] = port]))

ShDeletePort ==
    \E id \in SharedPortIds :
        /\ cloud.ports[id] # NoneRec
        /\ \E r \in {delete_port(nb, cloud.ports[id], TRUE)} :
               Done("delete_port", [port |-> cloud.ports[id]],
                    InCloud(r, IF r.raised THEN cloud
                               ELSE [cloud EXCEPT !.ports[id] = NoneRec]))

NextShared ==
    \/ ShCreatePort
    \/ ShUpdatePort
    \/ ShDeletePort

SpecShared == InitShared /\ [][NextShared]_vars

\* The addresses of one IP version of the ports Neutron holds in a group.
MemberAddresses(cl, sg_id, v) ==
    UNION {acl_port_ips(cl.ports[id])[v] :
              id \in {i \in DOMAIN cl.ports :
                         IF cl.ports[i] = NoneRec THEN FALSE
                         ELSE sg_id \in Range(cl.ports[i].security_groups)}}

\* C39: after any sequence of successful create_port, update_port and
\* delete_port calls on ports that are not trusted, the address set of
\* every security group and IP version holds exactly the addresses of that
\* version of the ports that are members of the group now, also when two
\* ports of the group have an address in common.
C39_AddressSetsHoldMembers ==
    \A sg_id \in Range(SecurityGroups), v \in Range(IpVersions) :
        ovn_addrset_name(sg_id, v) \in DOMAIN nb.asets
            => nb.asets[ovn_addrset_name(sg_id, v)] = MemberAddresses(cloud, sg_id, v)

(***************************************************************************)
(* Gateway scheduling run again and again: the scenario of SpecSched for   *)
(* router r1, with schedule_unhosted_gateways called time after time and   *)
(* its transaction committing time after time.                             *)
(***************************************************************************)
SchedRunCommitted ==
    Done("schedule_unhosted_gateways", NoneRec, schedule_unhosted_gateways(nb, cloud, TRUE))

LvCreateRouter ==
    \E gw \in SchedGateways : L3CreateRouter("r1", gw, 0)

LvUpdateRouter ==
    \E gw \in SchedGateways : L3UpdateRouter("r1", gw, 0)

LvDeleteRouter == L3DeleteRouter("r1", 0)

NextSchedLive ==
    \/ LvCreateRouter
    \/ LvUpdateRouter
    \/ LvDeleteRouter
    \/ SchedChassisUp
    \/ SchedChassisDown
    \/ SchedRun

SpecSchedLive == Init /\ [][NextSchedLive]_vars /\ WF_vars(SchedRunCommitted)

\* The names the gateway ports of the routers can have.
GatewayPortNames ==
    {ovn_lrouter_port_name(<<router_id, network_id>>) :
        router_id \in Routers, network_id \in DOMAIN ExternalNetworks}

\* The gateway port exists and a chassis can host it.
Hostable(name) ==
    /\ name \in DOMAIN nb.lrps
    /\ CandidateChassis(cloud.chassis, name[2][2]) # {}

\* The gateway port is bound to a chassis that can host it.
Hosted(name) ==
    /\ name \in DOMAIN nb.lrps
    /\ nb.lrps[name].gateway_chassis \in CandidateChassis(cloud.chassis, name[2][2])

\* Every gateway port that a chassis can host is bound to such a chassis.
AllHosted == \A name \in GatewayPortNames : Hostable(name) => Hosted(name)

====
